---------------------------- MODULE Spec2Model ----------------------------
(*************************************************************************)
(* A model of abydos.phones: the tables PHONETIC_FEATURES and            *)
(* FEATURE_MASK, the tokenizer ipa_to_features and the decoder           *)
(* has_feature, each run one statement group at a time; of the class     *)
(* QGrams of abydos.qgram; and of hmean and the statistics of            *)
(* ConfusionTable of abydos.stats.                                       *)
(*                                                                       *)
(* A Python int is the record [neg, bits]: its sign and the set of the   *)
(* positions (0 = least significant) of the 1 bits of its magnitude, so  *)
(* that the 46-bit table values keep every bit.  A Python str is the     *)
(* sequence of its codepoints.  A float NaN is the record NaN.           *)
(*************************************************************************)
EXTENDS Integers, Sequences, FiniteSets, TLC

VARIABLES
  pc,        \* where the running call stands; "idle" between calls
  raw,       \* ipa_to_features: the argument as passed
  ipa,       \* ipa_to_features: the lower-cased, NFC-composed argument
  pos,       \* ipa_to_features: index of the next codepoint
  features,  \* ipa_to_features: the vectors emitted so far
  vector,    \* has_feature: the argument vector
  feature,   \* has_feature: the argument feature
  binary,    \* has_feature: the argument binary
  mask,      \* has_feature: FEATURE_MASK[feature]
  pos_mask,  \* has_feature: mask >> 1
  seen,      \* has_feature: how many elements of vector the for loop took
  retvec,    \* has_feature: the values appended so far
  qargs,     \* QGrams: the arguments the constructor was called with
  qg,        \* QGrams: the object the constructor made
  ct,        \* ConfusionTable: the object the constructor made
  ret        \* abydos.stats, QGrams.count: the call made last and its value

callVars == <<pc, raw, ipa, pos, features, vector, feature, binary, mask,
              pos_mask, seen, retvec>>
libVars == <<qargs, qg, ct, ret>>
vars == <<pc, raw, ipa, pos, features, vector, feature, binary, mask,
          pos_mask, seen, retvec, qargs, qg, ct, ret>>

tokVars == <<raw, ipa, pos, features>>
hfVars == <<vector, feature, binary, mask, pos_mask, seen, retvec>>

-----------------------------------------------------------------------------
(* Bounds of the model *)

\* longest argument of ipa_to_features drawn from RawAlphabet
MaxLen == 3
\* longest argument vector of has_feature drawn from SampleVectors
MaxVecLen == 2

-----------------------------------------------------------------------------
(* Python values *)

Min(a, b) == IF a < b THEN a ELSE b

\* a non-negative int from its binary literal, most significant bit first
Bin(digits) ==
  [neg |-> FALSE,
   bits |-> {Len(digits) - i : i \in {j \in 1..Len(digits) : digits[j] = 1}}]

\* the int -1
NegOne == [neg |-> TRUE, bits |-> {0}]

\* the int 0
Zero == [neg |-> FALSE, bits |-> {}]

\* x < 0
IsNegative(x) == x.neg

\* x & y, for x, y >= 0
BitAnd(x, y) == [neg |-> FALSE, bits |-> x.bits \cap y.bits]

\* x >> 1, for x >= 0
\* mutant: the shift of line 183 is by 0 bits
ShiftRight0(x) == x

ShiftRight1(x) == [neg |-> FALSE, bits |-> {b - 1 : b \in {c \in x.bits : c >= 1}}]

\* the truth value of an int: x != 0
Truthy(x) == x.neg \/ x.bits # {}

\* the elements has_feature appends
PyNum(n) == [nan |-> FALSE, val |-> n]
NaN == [nan |-> TRUE, val |-> 0]
\* the value None, and a name that is bound to no object yet
None == [kind |-> "None"]

\* s[a:b] for 0 <= a <= b: the slice stops at the end of s
Slice(s, a, b) == SubSeq(s, a + 1, Min(b, Len(s)))

-----------------------------------------------------------------------------
(* The tables *)

\* the items of the dict literal of lines 29-100, in source order
PhoneticFeatureItems ==
  <<
    (* U+0074 *) <<<<116>>, Bin(<<0,1,1,0,1,0,1,0,0,0,0,1,0,1,1,0,1,0,0,0,0,0,0,0,0,0,1,0,0,0,1,0,1,0,1,0,1,0,1,0,1,0,1,0,1,0>>)>>,
    (* U+0064 *) <<<<100>>, Bin(<<0,1,1,0,1,0,1,0,0,0,0,1,0,1,1,0,1,0,0,0,0,0,0,0,0,0,1,0,0,0,0,1,1,0,1,0,1,0,1,0,1,0,1,0,1,0>>)>>,
    (* U+0073 *) <<<<115>>, Bin(<<0,1,1,0,1,0,1,0,0,0,0,1,0,1,1,0,1,0,0,0,0,0,0,0,0,0,1,0,0,0,1,0,1,0,1,0,0,1,0,1,1,0,1,0,1,0>>)>>,
    (* U+007A *) <<<<122>>, Bin(<<0,1,1,0,1,0,1,0,0,0,0,1,0,1,1,0,1,0,0,0,0,0,0,0,0,0,1,0,0,0,0,1,1,0,1,0,0,1,0,1,1,0,1,0,1,0>>)>>,
    (* U+026C *) <<<<620>>, Bin(<<0,1,1,0,1,0,1,0,0,0,0,1,0,1,1,0,1,0,0,0,0,0,0,0,0,0,1,0,0,0,1,0,0,1,1,0,0,1,1,0,0,1,1,0,1,0>>)>>,
    (* U+026E *) <<<<622>>, Bin(<<0,1,1,0,1,0,1,0,0,0,0,1,0,1,1,0,1,0,0,0,0,0,0,0,0,0,1,0,0,0,0,1,1,0,1,0,0,1,1,0,0,1,1,0,1,0>>)>>,
    (* U+03B8 *) <<<<952>>, Bin(<<0,1,1,0,1,0,1,0,0,0,0,1,0,1,1,0,1,0,0,0,0,0,0,0,0,0,1,0,0,0,1,0,1,0,1,0,0,1,1,0,1,0,1,0,1,0>>)>>,
    (* U+00F0 *) <<<<240>>, Bin(<<0,1,1,0,1,0,1,0,0,0,0,1,0,1,1,0,1,0,0,0,0,0,0,0,0,0,1,0,0,0,0,1,1,0,1,0,0,1,1,0,1,0,1,0,1,0>>)>>,
    (* U+0283 *) <<<<643>>, Bin(<<0,1,1,0,1,0,1,0,0,0,0,1,1,0,0,1,1,0,0,0,0,0,0,0,0,0,1,0,0,0,1,0,1,0,1,0,0,1,0,1,1,0,1,0,1,0>>)>>,
    (* U+0292 *) <<<<658>>, Bin(<<0,1,1,0,1,0,1,0,0,0,0,1,1,0,0,1,1,0,0,0,0,0,0,0,0,0,1,0,0,0,0,1,1,0,1,0,0,1,0,1,1,0,1,0,1,0>>)>>,
    (* U+0063 *) <<<<99>>, Bin(<<0,1,1,0,1,0,1,0,0,0,0,1,1,0,0,1,0,1,0,1,1,0,1,0,1,0,1,0,0,0,1,0,1,0,1,0,1,0,1,0,1,0,1,0,1,0>>)>>,
    (* U+025F *) <<<<607>>, Bin(<<0,1,1,0,1,0,1,0,0,0,0,1,1,0,0,1,0,1,0,1,1,0,1,0,1,0,1,0,0,0,0,1,1,0,1,0,1,0,1,0,1,0,1,0,1,0>>)>>,
    (* U+00E7 *) <<<<231>>, Bin(<<0,1,1,0,1,0,1,0,0,0,0,1,1,0,0,1,0,1,0,1,1,0,1,0,1,0,1,0,0,0,1,0,1,0,1,0,0,1,1,0,1,0,1,0,1,0>>)>>,
    (* U+029D *) <<<<669>>, Bin(<<0,1,1,0,1,0,1,0,0,0,0,1,1,0,0,1,0,1,0,1,1,0,1,0,1,0,1,0,0,0,0,1,1,0,1,0,0,1,1,0,1,0,1,0,1,0>>)>>,
    (* U+0070 *) <<<<112>>, Bin(<<0,1,1,0,1,0,0,1,1,0,1,0,0,0,0,0,1,0,0,0,0,0,0,0,0,0,1,0,0,0,1,0,1,0,1,0,1,0,1,0,1,0,1,0,1,0>>)>>,
    (* U+0062 *) <<<<98>>, Bin(<<0,1,1,0,1,0,0,1,1,0,1,0,0,0,0,0,1,0,0,0,0,0,0,0,0,0,1,0,0,0,0,1,1,0,1,0,1,0,1,0,1,0,1,0,1,0>>)>>,
    (* U+0066 *) <<<<102>>, Bin(<<0,1,1,0,1,0,0,1,1,0,1,0,0,0,0,0,1,0,0,0,0,0,0,0,0,0,1,0,0,0,1,0,1,0,1,0,0,1,1,0,1,0,1,0,1,0>>)>>,
    (* U+0076 *) <<<<118>>, Bin(<<0,1,1,0,1,0,0,1,1,0,1,0,0,0,0,0,1,0,0,0,0,0,0,0,0,0,1,0,0,0,0,1,1,0,1,0,0,1,1,0,1,0,1,0,1,0>>)>>,
    (* U+0278 *) <<<<632>>, Bin(<<0,1,1,0,1,0,0,1,1,0,1,0,0,0,0,0,1,0,0,0,0,0,0,0,0,0,1,0,0,0,1,0,1,0,1,0,0,1,1,0,1,0,1,0,1,0>>)>>,
    (* U+03B2 *) <<<<946>>, Bin(<<0,1,1,0,1,0,0,1,1,0,1,0,0,0,0,0,1,0,0,0,0,0,0,0,0,0,1,0,0,0,0,1,1,0,1,0,0,1,1,0,1,0,1,0,1,0>>)>>,
    (* U+006B *) <<<<107>>, Bin(<<0,1,1,0,1,0,1,0,0,0,1,0,0,0,0,0,0,1,0,1,1,0,0,1,1,0,1,0,0,0,1,0,1,0,1,0,1,0,1,0,1,0,1,0,1,0>>)>>,
    (* U+0067 *) <<<<103>>, Bin(<<0,1,1,0,1,0,1,0,0,0,1,0,0,0,0,0,0,1,0,1,1,0,0,1,1,0,1,0,0,0,0,1,1,0,1,0,1,0,1,0,1,0,1,0,1,0>>)>>,
    (* U+0078 *) <<<<120>>, Bin(<<0,1,1,0,1,0,1,0,0,0,1,0,0,0,0,0,0,1,0,1,1,0,0,1,1,0,1,0,0,0,1,0,1,0,1,0,0,1,1,0,1,0,1,0,1,0>>)>>,
    (* U+0263 *) <<<<611>>, Bin(<<0,1,1,0,1,0,1,0,0,0,1,0,0,0,0,0,0,1,0,1,1,0,0,1,1,0,1,0,0,0,0,1,1,0,1,0,0,1,1,0,1,0,1,0,1,0>>)>>,
    (* U+0071 *) <<<<113>>, Bin(<<0,1,1,0,1,0,1,0,0,0,1,0,0,0,0,0,0,1,1,0,1,0,0,1,1,0,1,0,0,0,1,0,1,0,1,0,1,0,1,0,1,0,1,0,1,0>>)>>,
    (* U+0262 *) <<<<610>>, Bin(<<0,1,1,0,1,0,1,0,0,0,1,0,0,0,0,0,0,1,1,0,1,0,0,1,1,0,1,0,0,0,0,1,1,0,1,0,1,0,1,0,1,0,1,0,1,0>>)>>,
    (* U+03C7 *) <<<<967>>, Bin(<<0,1,1,0,1,0,1,0,0,0,1,0,0,0,0,0,0,1,1,0,1,0,0,1,1,0,1,0,0,0,1,0,1,0,1,0,0,1,1,0,1,0,1,0,1,0>>)>>,
    (* U+0281 *) <<<<641>>, Bin(<<0,1,1,0,1,0,1,0,0,0,1,0,0,0,0,0,0,1,1,0,1,0,0,1,1,0,1,0,0,0,0,1,1,0,1,0,0,1,1,0,1,0,1,0,1,0>>)>>,
    (* U+0127 *) <<<<295>>, Bin(<<0,1,1,0,1,0,1,0,0,0,1,0,0,0,0,0,1,0,0,0,0,0,0,0,0,0,0,1,1,0,1,0,1,0,1,0,0,1,1,0,1,0,1,0,1,0>>)>>,
    (* U+0295 *) <<<<661>>, Bin(<<0,1,1,0,1,0,1,0,0,0,1,0,0,0,0,0,1,0,0,0,0,0,0,0,0,0,0,1,1,0,1,0,1,0,1,0,0,1,1,0,1,0,1,0,1,0>>)>>,
    (* U+0068 *) <<<<104>>, Bin(<<1,0,1,0,1,0,1,0,0,0,1,0,0,0,0,0,1,0,0,0,0,0,0,0,0,0,1,0,0,0,1,0,0,1,1,0,0,1,1,0,1,0,1,0,1,0>>)>>,
    (* U+0266 *) <<<<614>>, Bin(<<1,0,1,0,1,0,1,0,0,0,1,0,0,0,0,0,1,0,0,0,0,0,0,0,0,0,1,0,0,0,0,1,0,1,1,0,0,1,1,0,1,0,1,0,1,0>>)>>,
    (* U+0294 *) <<<<660>>, Bin(<<1,0,1,0,1,0,1,0,0,0,1,0,0,0,0,0,1,0,0,0,0,0,0,0,0,0,1,0,0,0,1,0,1,0,0,1,1,0,1,0,1,0,1,0,1,0>>)>>,
    (* U+0074 U+0283 *) <<<<116, 643>>, Bin(<<0,1,1,0,1,0,1,0,0,0,0,1,1,0,0,1,0,1,0,1,1,0,1,0,1,0,1,0,0,0,1,0,1,0,1,0,1,0,0,1,1,0,0,1,1,0>>)>>,
    (* U+0064 U+0292 *) <<<<100, 658>>, Bin(<<0,1,1,0,1,0,1,0,0,0,0,1,1,0,0,1,0,1,0,1,1,0,1,0,1,0,1,0,0,0,0,1,1,0,1,0,1,0,0,1,1,0,0,1,1,0>>)>>,
    (* U+0074 U+0073 *) <<<<116, 115>>, Bin(<<0,1,1,0,1,0,1,0,0,0,0,1,0,1,1,0,1,0,0,0,0,0,0,0,0,0,1,0,0,0,1,0,1,0,1,0,1,0,0,1,1,0,0,1,1,0>>)>>,
    (* U+0064 U+007A *) <<<<100, 122>>, Bin(<<0,1,1,0,1,0,1,0,0,0,0,1,0,1,1,0,1,0,0,0,0,0,0,0,0,0,1,0,0,0,0,1,1,0,1,0,1,0,0,1,1,0,0,1,1,0>>)>>,
    (* U+006B U+0078 *) <<<<107, 120>>, Bin(<<0,1,1,0,1,0,1,0,0,0,1,0,0,0,0,0,0,1,0,1,1,0,0,1,1,0,1,0,0,0,1,0,1,0,1,0,1,0,1,0,1,0,0,1,1,0>>)>>,
    (* U+0070 U+0066 *) <<<<112, 102>>, Bin(<<0,1,1,0,1,0,0,1,1,0,1,0,0,0,0,0,1,0,0,0,0,0,0,0,0,0,1,0,0,0,1,0,1,0,1,0,1,0,0,1,1,0,0,1,1,0>>)>>,
    (* U+006D *) <<<<109>>, Bin(<<0,1,0,1,1,0,0,1,1,0,1,0,0,0,0,0,1,0,0,0,0,0,0,0,0,0,1,0,0,0,0,1,1,0,1,0,1,0,1,0,1,0,1,0,0,1>>)>>,
    (* U+006E *) <<<<110>>, Bin(<<0,1,0,1,1,0,1,0,0,0,0,1,0,1,1,0,1,0,0,0,0,0,0,0,0,0,1,0,0,0,0,1,1,0,1,0,1,0,1,0,1,0,1,0,0,1>>)>>,
    (* U+014B *) <<<<331>>, Bin(<<0,1,0,1,1,0,1,0,0,0,1,0,0,0,0,0,0,1,0,1,1,0,0,1,1,0,1,0,0,0,0,1,1,0,1,0,1,0,1,0,1,0,1,0,0,1>>)>>,
    (* U+0273 *) <<<<627>>, Bin(<<0,1,0,1,1,0,1,0,0,0,0,1,1,0,1,0,0,1,1,0,1,0,1,0,1,0,1,0,0,0,0,1,1,0,1,0,1,0,1,0,1,0,1,0,0,1>>)>>,
    (* U+0272 *) <<<<626>>, Bin(<<0,1,0,1,1,0,1,0,0,0,1,0,0,0,0,0,0,1,0,1,1,0,1,0,1,0,1,0,0,0,0,1,1,0,1,0,1,0,1,0,1,0,1,0,0,1>>)>>,
    (* U+0274 *) <<<<628>>, Bin(<<0,1,0,1,1,0,1,0,0,0,1,0,0,0,0,0,0,1,1,0,1,0,0,1,1,0,1,0,0,0,0,1,1,0,1,0,1,0,1,0,1,0,1,0,0,1>>)>>,
    (* U+006C *) <<<<108>>, Bin(<<0,1,0,1,1,0,1,0,0,0,0,1,0,1,1,0,1,0,0,0,0,0,0,0,0,0,1,0,0,0,0,1,1,0,1,0,0,1,1,0,0,1,1,0,1,0>>)>>,
    (* U+028E *) <<<<654>>, Bin(<<0,1,0,1,1,0,1,0,0,0,1,0,0,0,0,0,0,1,0,1,1,0,1,0,1,0,1,0,0,0,0,1,1,0,1,0,0,1,1,0,0,1,1,0,1,0>>)>>,
    (* U+0072 *) <<<<114>>, Bin(<<0,1,0,1,1,0,1,0,0,0,0,1,0,1,1,0,1,0,0,0,0,0,0,0,0,0,1,0,0,0,0,1,1,0,1,0,0,1,1,0,1,0,1,0,1,0>>)>>,
    (* U+0279 *) <<<<633>>, Bin(<<0,1,0,1,1,0,1,0,0,0,0,1,0,1,1,0,1,0,0,0,0,0,0,0,0,0,1,0,0,0,0,1,1,0,1,0,0,1,1,0,1,0,1,0,1,0>>)>>,
    (* U+0280 *) <<<<640>>, Bin(<<0,1,0,1,1,0,1,0,0,0,1,0,0,0,0,0,0,1,1,0,1,0,0,1,1,0,1,0,0,0,0,1,1,0,1,0,0,1,1,0,1,0,1,0,1,0>>)>>,
    (* U+006A *) <<<<106>>, Bin(<<1,0,0,1,1,0,0,1,1,0,1,0,0,0,0,0,0,1,0,1,1,0,1,0,1,0,1,0,0,0,0,1,1,0,1,0,0,1,1,0,1,0,1,0,1,0>>)>>,
    (* U+0077 *) <<<<119>>, Bin(<<1,0,0,1,1,0,0,1,0,1,1,0,0,0,0,0,0,1,0,1,1,0,0,1,1,0,1,0,0,0,0,1,1,0,1,0,0,1,1,0,1,0,1,0,1,0>>)>>,
    (* U+0265 *) <<<<613>>, Bin(<<1,0,0,1,1,0,0,1,0,1,1,0,0,0,0,0,0,1,0,1,1,0,1,0,1,0,1,0,0,0,0,1,1,0,1,0,0,1,1,0,1,0,1,0,1,0>>)>>,
    (* U+0270 *) <<<<624>>, Bin(<<1,0,0,1,1,0,0,1,1,0,1,0,0,0,0,0,0,1,0,1,1,0,0,1,1,0,1,0,0,0,0,1,1,0,1,0,0,1,1,0,1,0,1,0,1,0>>)>>,
    (* U+0069 *) <<<<105>>, Bin(<<1,0,0,1,0,1,0,1,1,0,1,0,0,0,0,0,0,1,0,1,1,0,1,0,0,1,0,1,0,1,0,1,1,0,1,0,0,1,1,0,1,0,1,0,1,0>>)>>,
    (* U+026A *) <<<<618>>, Bin(<<1,0,0,1,0,1,0,1,1,0,1,0,0,0,0,0,0,1,0,1,1,0,1,0,1,0,0,1,1,0,0,1,1,0,1,0,0,1,1,0,1,0,1,0,1,0>>)>>,
    (* U+0075 *) <<<<117>>, Bin(<<1,0,0,1,0,1,0,1,0,1,1,0,0,0,0,0,0,1,0,1,1,0,0,1,0,1,0,1,0,1,0,1,1,0,1,0,0,1,1,0,1,0,1,0,1,0>>)>>,
    (* U+028A *) <<<<650>>, Bin(<<1,0,0,1,0,1,0,1,0,1,1,0,0,0,0,0,0,1,0,1,1,0,0,1,1,0,0,1,1,0,0,1,1,0,1,0,0,1,1,0,1,0,1,0,1,0>>)>>,
    (* U+0065 *) <<<<101>>, Bin(<<1,0,0,1,0,1,0,1,1,0,1,0,0,0,0,0,0,1,1,0,1,0,1,0,0,1,0,1,0,1,0,1,1,0,1,0,0,1,1,0,1,0,1,0,1,0>>)>>,
    (* U+025B *) <<<<603>>, Bin(<<1,0,0,1,0,1,0,1,1,0,1,0,0,0,0,0,0,1,1,0,1,0,1,0,1,0,0,1,1,0,0,1,1,0,1,0,0,1,1,0,1,0,1,0,1,0>>)>>,
    (* U+006F *) <<<<111>>, Bin(<<1,0,0,1,0,1,0,1,0,1,1,0,0,0,0,0,0,1,1,0,1,0,0,1,0,1,0,1,0,1,0,1,1,0,1,0,0,1,1,0,1,0,1,0,1,0>>)>>,
    (* U+0254 *) <<<<596>>, Bin(<<1,0,0,1,0,1,0,1,0,1,1,0,0,0,0,0,0,1,1,0,1,0,0,1,1,0,0,1,1,0,0,1,1,0,1,0,0,1,1,0,1,0,1,0,1,0>>)>>,
    (* U+0061 *) <<<<97>>, Bin(<<1,0,0,1,0,1,0,1,1,0,1,0,0,0,0,0,0,1,1,0,0,1,1,0,1,0,0,1,1,0,0,1,1,0,1,0,0,1,1,0,1,0,1,0,1,0>>)>>,
    (* U+00E6 *) <<<<230>>, Bin(<<1,0,0,1,0,1,0,1,1,0,1,0,0,0,0,0,0,1,1,0,0,1,1,0,0,1,0,1,1,0,0,1,1,0,1,0,0,1,1,0,1,0,1,0,1,0>>)>>,
    (* U+0079 *) <<<<121>>, Bin(<<1,0,0,1,0,1,0,1,0,1,1,0,0,0,0,0,0,1,0,1,1,0,1,0,0,1,0,1,0,1,0,1,1,0,1,0,0,1,1,0,1,0,1,0,1,0>>)>>,
    (* U+028F *) <<<<655>>, Bin(<<1,0,0,1,0,1,0,1,0,1,1,0,0,0,0,0,0,1,0,1,1,0,1,0,1,0,0,1,1,0,0,1,1,0,1,0,0,1,1,0,1,0,1,0,1,0>>)>>,
    (* U+00F8 *) <<<<248>>, Bin(<<1,0,0,1,0,1,0,1,0,1,1,0,0,0,0,0,0,1,1,0,1,0,1,0,0,1,0,1,0,1,0,1,1,0,1,0,0,1,1,0,1,0,1,0,1,0>>)>>,
    (* U+0153 *) <<<<339>>, Bin(<<1,0,0,1,0,1,0,1,1,0,1,0,0,0,0,0,0,1,1,0,1,0,1,0,1,0,0,1,1,0,0,1,1,0,1,0,0,1,1,0,1,0,1,0,1,0>>)>>,
    (* U+0259 *) <<<<601>>, Bin(<<1,0,0,1,0,1,0,1,0,1,1,0,0,0,0,0,0,1,1,0,1,0,0,1,1,0,0,1,1,0,0,1,1,0,1,0,0,1,1,0,1,0,1,0,1,0>>)>>,
    (* U+026F *) <<<<623>>, Bin(<<1,0,0,1,0,1,0,1,0,1,1,0,0,0,0,0,0,1,0,1,1,0,0,1,0,1,0,1,1,0,0,1,1,0,1,0,0,1,1,0,1,0,1,0,1,0>>)>>,
    (* U+006B U+0077 *) <<<<107, 119>>, Bin(<<0,1,1,0,1,0,0,1,0,1,1,0,0,0,0,0,0,1,0,1,1,0,0,1,1,0,1,0,0,0,1,0,1,0,1,0,1,0,1,0,1,0,1,0,1,0>>)>>,
    (* U+0067 U+0077 *) <<<<103, 119>>, Bin(<<0,1,1,0,1,0,0,1,0,1,1,0,0,0,0,0,0,1,0,1,1,0,0,1,1,0,1,0,0,0,0,1,1,0,1,0,1,0,1,0,1,0,1,0,1,0>>)>>
  >>

PhoneticFeatureKeys == {PhoneticFeatureItems[i][1] : i \in 1..Len(PhoneticFeatureItems)}

\* the value of the last item with key k
LastItem(k) ==
  PhoneticFeatureItems[
    CHOOSE i \in 1..Len(PhoneticFeatureItems) :
      /\ PhoneticFeatureItems[i][1] = k
      /\ \A j \in 1..Len(PhoneticFeatureItems) :
           PhoneticFeatureItems[j][1] = k => j <= i][2]

\* mutant: the literal of t starts 11 in place of 01
PHONETIC_FEATURES_PresentAs11 ==
  [k \in PhoneticFeatureKeys |->
     IF k = <<116>>
     THEN [neg |-> FALSE, bits |-> LastItem(k).bits \cup {45}]
     ELSE LastItem(k)]

\* mutant: the literal of t typed one digit too long, a leading 1
PHONETIC_FEATURES_StrayBit ==
  [k \in PhoneticFeatureKeys |->
     IF k = <<116>>
     THEN [neg |-> FALSE, bits |-> LastItem(k).bits \cup {46}]
     ELSE LastItem(k)]

\* mutant: the entry of s holds -1
PHONETIC_FEATURES_NegativeEntry ==
  [k \in PhoneticFeatureKeys |-> IF k = <<115>> THEN NegOne ELSE LastItem(k)]

\* the dict: of two items with one key the later one stands
PHONETIC_FEATURES ==
  [k \in PhoneticFeatureKeys |->
     LET last == CHOOSE i \in 1..Len(PhoneticFeatureItems) :
                   /\ PhoneticFeatureItems[i][1] = k
                   /\ \A j \in 1..Len(PhoneticFeatureItems) :
                        PhoneticFeatureItems[j][1] = k => j <= i
     IN PhoneticFeatureItems[last][2]]

\* the dict literal of lines 102-127
FeatureMaskItems ==
  [
    consonantal |-> Bin(<<1,1,0,0,0,0,0,0,0,0,0,0,0,0,0,0,0,0,0,0,0,0,0,0,0,0,0,0,0,0,0,0,0,0,0,0,0,0,0,0,0,0,0,0,0,0>>),
    sonorant |-> Bin(<<0,0,1,1,0,0,0,0,0,0,0,0,0,0,0,0,0,0,0,0,0,0,0,0,0,0,0,0,0,0,0,0,0,0,0,0,0,0,0,0,0,0,0,0,0,0>>),
    syllabic |-> Bin(<<0,0,0,0,1,1,0,0,0,0,0,0,0,0,0,0,0,0,0,0,0,0,0,0,0,0,0,0,0,0,0,0,0,0,0,0,0,0,0,0,0,0,0,0,0,0>>),
    labial |-> Bin(<<0,0,0,0,0,0,1,1,0,0,0,0,0,0,0,0,0,0,0,0,0,0,0,0,0,0,0,0,0,0,0,0,0,0,0,0,0,0,0,0,0,0,0,0,0,0>>),
    round |-> Bin(<<0,0,0,0,0,0,0,0,1,1,0,0,0,0,0,0,0,0,0,0,0,0,0,0,0,0,0,0,0,0,0,0,0,0,0,0,0,0,0,0,0,0,0,0,0,0>>),
    coronal |-> Bin(<<0,0,0,0,0,0,0,0,0,0,1,1,0,0,0,0,0,0,0,0,0,0,0,0,0,0,0,0,0,0,0,0,0,0,0,0,0,0,0,0,0,0,0,0,0,0>>),
    anterior |-> Bin(<<0,0,0,0,0,0,0,0,0,0,0,0,1,1,0,0,0,0,0,0,0,0,0,0,0,0,0,0,0,0,0,0,0,0,0,0,0,0,0,0,0,0,0,0,0,0>>),
    distributed |-> Bin(<<0,0,0,0,0,0,0,0,0,0,0,0,0,0,1,1,0,0,0,0,0,0,0,0,0,0,0,0,0,0,0,0,0,0,0,0,0,0,0,0,0,0,0,0,0,0>>),
    dorsal |-> Bin(<<0,0,0,0,0,0,0,0,0,0,0,0,0,0,0,0,1,1,0,0,0,0,0,0,0,0,0,0,0,0,0,0,0,0,0,0,0,0,0,0,0,0,0,0,0,0>>),
    high |-> Bin(<<0,0,0,0,0,0,0,0,0,0,0,0,0,0,0,0,0,0,1,1,0,0,0,0,0,0,0,0,0,0,0,0,0,0,0,0,0,0,0,0,0,0,0,0,0,0>>),
    low |-> Bin(<<0,0,0,0,0,0,0,0,0,0,0,0,0,0,0,0,0,0,0,0,1,1,0,0,0,0,0,0,0,0,0,0,0,0,0,0,0,0,0,0,0,0,0,0,0,0>>),
    back |-> Bin(<<0,0,0,0,0,0,0,0,0,0,0,0,0,0,0,0,0,0,0,0,0,0,1,1,0,0,0,0,0,0,0,0,0,0,0,0,0,0,0,0,0,0,0,0,0,0>>),
    tense |-> Bin(<<0,0,0,0,0,0,0,0,0,0,0,0,0,0,0,0,0,0,0,0,0,0,0,0,1,1,0,0,0,0,0,0,0,0,0,0,0,0,0,0,0,0,0,0,0,0>>),
    pharyngeal |-> Bin(<<0,0,0,0,0,0,0,0,0,0,0,0,0,0,0,0,0,0,0,0,0,0,0,0,0,0,1,1,0,0,0,0,0,0,0,0,0,0,0,0,0,0,0,0,0,0>>),
    ATR |-> Bin(<<0,0,0,0,0,0,0,0,0,0,0,0,0,0,0,0,0,0,0,0,0,0,0,0,0,0,0,0,1,1,0,0,0,0,0,0,0,0,0,0,0,0,0,0,0,0>>),
    voice |-> Bin(<<0,0,0,0,0,0,0,0,0,0,0,0,0,0,0,0,0,0,0,0,0,0,0,0,0,0,0,0,0,0,1,1,0,0,0,0,0,0,0,0,0,0,0,0,0,0>>),
    spread_glottis |-> Bin(<<0,0,0,0,0,0,0,0,0,0,0,0,0,0,0,0,0,0,0,0,0,0,0,0,0,0,0,0,0,0,0,0,1,1,0,0,0,0,0,0,0,0,0,0,0,0>>),
    constricted_glottis |-> Bin(<<0,0,0,0,0,0,0,0,0,0,0,0,0,0,0,0,0,0,0,0,0,0,0,0,0,0,0,0,0,0,0,0,0,0,1,1,0,0,0,0,0,0,0,0,0,0>>),
    continuant |-> Bin(<<0,0,0,0,0,0,0,0,0,0,0,0,0,0,0,0,0,0,0,0,0,0,0,0,0,0,0,0,0,0,0,0,0,0,0,0,1,1,0,0,0,0,0,0,0,0>>),
    strident |-> Bin(<<0,0,0,0,0,0,0,0,0,0,0,0,0,0,0,0,0,0,0,0,0,0,0,0,0,0,0,0,0,0,0,0,0,0,0,0,0,0,1,1,0,0,0,0,0,0>>),
    lateral |-> Bin(<<0,0,0,0,0,0,0,0,0,0,0,0,0,0,0,0,0,0,0,0,0,0,0,0,0,0,0,0,0,0,0,0,0,0,0,0,0,0,0,0,1,1,0,0,0,0>>),
    delayed_release |-> Bin(<<0,0,0,0,0,0,0,0,0,0,0,0,0,0,0,0,0,0,0,0,0,0,0,0,0,0,0,0,0,0,0,0,0,0,0,0,0,0,0,0,0,0,1,1,0,0>>),
    nasal |-> Bin(<<0,0,0,0,0,0,0,0,0,0,0,0,0,0,0,0,0,0,0,0,0,0,0,0,0,0,0,0,0,0,0,0,0,0,0,0,0,0,0,0,0,0,0,0,1,1>>)
  ]

\* mutant: the literal of nasal typed one digit too long, 0b110
FEATURE_MASK_NasalShifted ==
  [FeatureMaskItems EXCEPT !.nasal = Bin(<<1, 1, 0>>)]

\* mutant: the literal of consonantal typed one digit short
FEATURE_MASK_ConsonantalShort ==
  [FeatureMaskItems EXCEPT !.consonantal = ShiftRight1(FeatureMaskItems.consonantal)]

\* mutant: the entry of nasal is missing
FEATURE_MASK_NoNasal ==
  [f \in DOMAIN FeatureMaskItems \ {"nasal"} |-> FeatureMaskItems[f]]

\* mutant: the literals of high and low are exchanged
FEATURE_MASK_HighLowSwapped ==
  [FeatureMaskItems EXCEPT !.high = FeatureMaskItems.low,
                           !.low = FeatureMaskItems.high]

FEATURE_MASK == FeatureMaskItems
-----------------------------------------------------------------------------
(* Inputs of the model *)

\* the sequences over S of length at most n
SeqsUpTo(S, n) == UNION {[1..k -> S] : k \in 0..n}

\* codepoints of the arguments: t, s, c, U+0327 (combining cedilla), T, 0,
\* U+00C7 (C with cedilla)
RawAlphabet == {116, 115, 99, 807, 84, 48, 199}

\* arguments of ipa_to_features: every short string over RawAlphabet and
\* every key of the table
RawInputs == SeqsUpTo(RawAlphabet, MaxLen) \cup PhoneticFeatureKeys

\* elements of the arguments of has_feature: -1, the vectors of t and m, and
\* the int 3, which no table entry holds
SampleVectors ==
  {NegOne, PHONETIC_FEATURES[<<116>>], PHONETIC_FEATURES[<<109>>], Bin(<<1, 1>>)}

TableVectors == {PHONETIC_FEATURES[k] : k \in PhoneticFeatureKeys}

\* ints no table entry holds: every field 10, every field 01, every field
\* 11, and every field 11 with the two bits above the top field set as well
OddBits == [neg |-> FALSE, bits |-> {b \in 0..45 : b % 2 = 1}]
EvenBits == [neg |-> FALSE, bits |-> {b \in 0..45 : b % 2 = 0}]
Ones46 == [neg |-> FALSE, bits |-> 0..45]
Ones48 == [neg |-> FALSE, bits |-> 0..47]
ProbeVectors == {OddBits, EvenBits, Ones46, Ones48}

\* arguments of has_feature: every short sequence over SampleVectors and
\* every one-element sequence holding a table vector or a probe
VectorInputs ==
  SeqsUpTo(SampleVectors, MaxVecLen)
    \cup {<<v>> : v \in TableVectors \cup ProbeVectors}

\* feature arguments: the names of the table and one that is not a name
FeatureInputs == DOMAIN FEATURE_MASK \cup {"not_a_feature"}

-----------------------------------------------------------------------------
(* ipa.lower() and unicodedata.normalize('NFC', ...), on the codepoints   *)
(* that RawAlphabet, the table keys and their upper-case forms can give  *)

\* str.lower() of one codepoint: the upper-case forms of the codepoints of the
\* table keys and of RawAlphabet; every other codepoint of the model has none
LowerCp(c) ==
  CASE c = 65 -> <<97>> [] c = 66 -> <<98>> [] c = 67 -> <<99>>
    [] c = 68 -> <<100>> [] c = 69 -> <<101>> [] c = 70 -> <<102>>
    [] c = 71 -> <<103>> [] c = 72 -> <<104>> [] c = 73 -> <<105>>
    [] c = 74 -> <<106>> [] c = 75 -> <<107>> [] c = 76 -> <<108>>
    [] c = 77 -> <<109>> [] c = 78 -> <<110>> [] c = 79 -> <<111>>
    [] c = 80 -> <<112>> [] c = 81 -> <<113>> [] c = 82 -> <<114>>
    [] c = 83 -> <<115>> [] c = 84 -> <<116>> [] c = 85 -> <<117>>
    [] c = 86 -> <<118>> [] c = 87 -> <<119>> [] c = 88 -> <<120>>
    [] c = 89 -> <<121>> [] c = 90 -> <<122>> [] c = 198 -> <<230>>
    [] c = 199 -> <<231>> [] c = 208 -> <<240>> [] c = 216 -> <<248>>
    [] c = 294 -> <<295>> [] c = 330 -> <<331>> [] c = 338 -> <<339>>
    [] c = 390 -> <<596>> [] c = 399 -> <<601>> [] c = 400 -> <<603>>
    [] c = 404 -> <<611>> [] c = 412 -> <<623>> [] c = 413 -> <<626>>
    [] c = 422 -> <<640>> [] c = 425 -> <<643>> [] c = 433 -> <<650>>
    [] c = 439 -> <<658>> [] c = 914 -> <<946>> [] c = 920 -> <<952>>
    [] c = 935 -> <<967>> [] c = 42893 -> <<613>> [] c = 42922 -> <<614>>
    [] c = 42925 -> <<620>> [] c = 42926 -> <<618>> [] c = 42930 -> <<669>>
    [] OTHER -> <<c>>

RECURSIVE Lower(_)
Lower(s) == IF s = <<>> THEN <<>> ELSE LowerCp(Head(s)) \o Lower(Tail(s))

\* canonical decomposition of one codepoint
DecomposeCp(c) ==
  CASE c = 231 -> <<99, 807>>
    [] c = 199 -> <<67, 807>>
    [] c = 355 -> <<116, 807>>
    [] c = 351 -> <<115, 807>>
    [] OTHER -> <<c>>

RECURSIVE Decompose(_)
Decompose(s) ==
  IF s = <<>> THEN <<>> ELSE DecomposeCp(Head(s)) \o Decompose(Tail(s))

\* the primary composites: a starter and the mark that follows it
ComposePair ==
  (<<99, 807>> :> 231) @@ (<<67, 807>> :> 199) @@
  (<<116, 807>> :> 355) @@ (<<115, 807>> :> 351)

\* canonical composition: U+0327 is the only mark, so a mark composes with
\* the codepoint just before it or not at all
RECURSIVE Compose(_, _)
Compose(done, rest) ==
  IF rest = <<>> THEN done
  ELSE IF done # <<>> /\ <<done[Len(done)], Head(rest)>> \in DOMAIN ComposePair
       THEN Compose(SubSeq(done, 1, Len(done) - 1)
                      \o <<ComposePair[<<done[Len(done)], Head(rest)>>]>>,
                    Tail(rest))
       ELSE Compose(Append(done, Head(rest)), Tail(rest))

NFC(s) == Compose(<<>>, Decompose(s))

\* mutant: normalize('NFD', ...) in place of 'NFC'
NormalizeNFD(s) == Decompose(Lower(s))

\* mutant: ipa is not lower-cased
NormalizeNoLower(s) == NFC(s)

\* line 139
Normalize(s) == NFC(Lower(s))

-----------------------------------------------------------------------------
(* ipa_to_features *)

\* line 142: the guard lets a 2-codepoint slice at the end of ipa through
Match3(s, p) ==
  p + 2 <= Len(s) /\ Slice(s, p, p + 3) \in DOMAIN PHONETIC_FEATURES

\* mutant: the 2-codepoint branch is missing
Match2Missing(s, p) == FALSE

\* line 145: the guard lets a 1-codepoint slice at the end of ipa through
Match2(s, p) ==
  p + 1 <= Len(s) /\ Slice(s, p, p + 2) \in DOMAIN PHONETIC_FEATURES

\* line 148
Match1(s, p) == <<s[p + 1]>> \in DOMAIN PHONETIC_FEATURES

\* lines 141-153 as a function: what the loop appends from p on
RECURSIVE TokenizeFrom(_, _)
TokenizeFrom(s, p) ==
  IF ~(p < Len(s)) THEN <<>>
  ELSE IF Match3(s, p)
       THEN <<PHONETIC_FEATURES[Slice(s, p, p + 3)]>> \o TokenizeFrom(s, p + 3)
  ELSE IF Match2(s, p)
       THEN <<PHONETIC_FEATURES[Slice(s, p, p + 2)]>> \o TokenizeFrom(s, p + 2)
  ELSE IF Match1(s, p)
       THEN <<PHONETIC_FEATURES[<<s[p + 1]>>]>> \o TokenizeFrom(s, p + 1)
  ELSE <<NegOne>> \o TokenizeFrom(s, p + 1)

\* lines 137-155 as a function: the list a call returns
IpaToFeatures(s) == TokenizeFrom(Normalize(s), 0)

IpaEnter(s) ==
  /\ pc = "idle"
  /\ raw' = s
  /\ features' = <<>>
  /\ pos' = 0
  /\ ipa' = Normalize(s)
  /\ pc' = "tok"
  /\ UNCHANGED hfVars
  /\ UNCHANGED libVars

Tok3 ==
  /\ pc = "tok"
  /\ pos < Len(ipa)
  /\ Match3(ipa, pos)
  /\ features' = Append(features, PHONETIC_FEATURES[Slice(ipa, pos, pos + 3)])
  /\ pos' = pos + 3
  /\ UNCHANGED <<pc, raw, ipa>>
  /\ UNCHANGED hfVars
  /\ UNCHANGED libVars

\* mutant: the 2-codepoint branch takes the first codepoint only
Tok2TakesOne ==
  /\ pc = "tok"
  /\ pos < Len(ipa)
  /\ ~Match3(ipa, pos)
  /\ Match2(ipa, pos)
  /\ features' = Append(features, PHONETIC_FEATURES[<<ipa[pos + 1]>>])
  /\ pos' = pos + 1
  /\ UNCHANGED <<pc, raw, ipa>>
  /\ UNCHANGED hfVars
  /\ UNCHANGED libVars

Tok2 ==
  /\ pc = "tok"
  /\ pos < Len(ipa)
  /\ ~Match3(ipa, pos)
  /\ Match2(ipa, pos)
  /\ features' = Append(features, PHONETIC_FEATURES[Slice(ipa, pos, pos + 2)])
  /\ pos' = pos + 2
  /\ UNCHANGED <<pc, raw, ipa>>
  /\ UNCHANGED hfVars
  /\ UNCHANGED libVars

Tok1 ==
  /\ pc = "tok"
  /\ pos < Len(ipa)
  /\ ~Match3(ipa, pos)
  /\ ~Match2(ipa, pos)
  /\ Match1(ipa, pos)
  /\ features' = Append(features, PHONETIC_FEATURES[<<ipa[pos + 1]>>])
  /\ pos' = pos + 1
  /\ UNCHANGED <<pc, raw, ipa>>
  /\ UNCHANGED hfVars
  /\ UNCHANGED libVars

\* mutant: an unknown codepoint takes the next codepoint with it
TokUnknownSkipsTwo ==
  /\ pc = "tok"
  /\ pos < Len(ipa)
  /\ ~Match3(ipa, pos)
  /\ ~Match2(ipa, pos)
  /\ ~Match1(ipa, pos)
  /\ features' = Append(features, NegOne)
  /\ pos' = pos + 2
  /\ UNCHANGED <<pc, raw, ipa>>
  /\ UNCHANGED hfVars
  /\ UNCHANGED libVars

\* mutant: an unknown codepoint is recorded and pos stays
TokUnknownNoAdvance ==
  /\ pc = "tok"
  /\ pos < Len(ipa)
  /\ ~Match3(ipa, pos)
  /\ ~Match2(ipa, pos)
  /\ ~Match1(ipa, pos)
  /\ features' = Append(features, NegOne)
  /\ pos' = pos
  /\ UNCHANGED <<pc, raw, ipa>>
  /\ UNCHANGED hfVars
  /\ UNCHANGED libVars

TokUnknown ==
  /\ pc = "tok"
  /\ pos < Len(ipa)
  /\ ~Match3(ipa, pos)
  /\ ~Match2(ipa, pos)
  /\ ~Match1(ipa, pos)
  /\ features' = Append(features, NegOne)
  /\ pos' = pos + 1
  /\ UNCHANGED <<pc, raw, ipa>>
  /\ UNCHANGED hfVars
  /\ UNCHANGED libVars

\* mutant: a loop that appended nothing records -1 on its way out
TokExitMarksEmpty ==
  /\ pc = "tok"
  /\ ~(pos < Len(ipa))
  /\ pc' = "tok_done"
  /\ features' = IF features = <<>> THEN <<NegOne>> ELSE features
  /\ UNCHANGED <<raw, ipa, pos>>
  /\ UNCHANGED hfVars
  /\ UNCHANGED libVars

TokExit ==
  /\ pc = "tok"
  /\ ~(pos < Len(ipa))
  /\ pc' = "tok_done"
  /\ UNCHANGED tokVars
  /\ UNCHANGED hfVars
  /\ UNCHANGED libVars

\* mutant: features and pos are module-level and outlive the call
IpaReturnKeepsLocals ==
  /\ pc = "tok_done"
  /\ pc' = "idle"
  /\ UNCHANGED tokVars
  /\ UNCHANGED hfVars
  /\ UNCHANGED libVars

\* the call returns features and its locals go
IpaReturn ==
  /\ pc = "tok_done"
  /\ pc' = "idle"
  /\ raw' = <<>>
  /\ ipa' = <<>>
  /\ pos' = 0
  /\ features' = <<>>
  /\ UNCHANGED hfVars
  /\ UNCHANGED libVars

-----------------------------------------------------------------------------
(* has_feature *)

\* mutant: line 192 tests masked & mask
DecodeTestsMask(char, m, pm, b) ==
  LET masked == BitAnd(char, m)
  IN IF ~Truthy(masked) THEN 0
     ELSE IF Truthy(BitAnd(masked, m)) THEN 1
     ELSE IF b THEN 0
     ELSE -1

\* mutant: the binary test of line 194 comes before the test of line 192
DecodeBinaryFirst(char, m, pm, b) ==
  LET masked == BitAnd(char, m)
  IN IF ~Truthy(masked) THEN 0
     ELSE IF b THEN 0
     ELSE IF Truthy(BitAnd(masked, pm)) THEN 1
     ELSE -1

\* mutant: line 194 is missing, - is -1 in both modes
DecodeIgnoresBinary(char, m, pm, b) ==
  LET masked == BitAnd(char, m)
  IN IF ~Truthy(masked) THEN 0
     ELSE IF Truthy(BitAnd(masked, pm)) THEN 1
     ELSE -1

\* mutant: line 190 tests char, not char & mask
DecodeNoMask(char, m, pm, b) ==
  LET masked == char
  IN IF ~Truthy(masked) THEN 0
     ELSE IF Truthy(BitAnd(masked, pm)) THEN 1
     ELSE IF b THEN 0
     ELSE -1

\* lines 189-197: the value of one non-negative element
Decode(char, m, pm, b) ==
  LET masked == BitAnd(char, m)
  IN IF ~Truthy(masked) THEN 0
     ELSE IF Truthy(BitAnd(masked, pm)) THEN 1
     ELSE IF b THEN 0
     ELSE -1

\* lines 181-199 as a function: the list a call with a valid feature returns
HasFeature(vs, f, b) ==
  [i \in 1..Len(vs) |->
     IF IsNegative(vs[i]) THEN NaN
     ELSE PyNum(Decode(vs[i], FEATURE_MASK[f], ShiftRight1(FEATURE_MASK[f]), b))]

HfEnter(vs, f, b) ==
  /\ pc = "idle"
  /\ vector' = vs
  /\ feature' = f
  /\ binary' = b
  /\ pc' = "hf_check"
  /\ UNCHANGED <<mask, pos_mask, seen, retvec>>
  /\ UNCHANGED tokVars
  /\ UNCHANGED libVars

\* mutant: the name is looked up with a default and checked after the loop
HfRaiseAfterLoop ==
  /\ pc = "hf_check"
  /\ feature \notin DOMAIN FEATURE_MASK
  /\ pc' = "hf_raised"
  /\ retvec' = [i \in 1..Len(vector) |->
                  IF IsNegative(vector[i]) THEN NaN ELSE PyNum(0)]
  /\ seen' = Len(vector)
  /\ UNCHANGED <<vector, feature, binary, mask, pos_mask>>
  /\ UNCHANGED tokVars
  /\ UNCHANGED libVars

\* lines 173-178
HfRaise ==
  /\ pc = "hf_check"
  /\ feature \notin DOMAIN FEATURE_MASK
  /\ pc' = "hf_raised"
  /\ UNCHANGED hfVars
  /\ UNCHANGED tokVars
  /\ UNCHANGED libVars

\* lines 181-184
HfSetup ==
  /\ pc = "hf_check"
  /\ feature \in DOMAIN FEATURE_MASK
  /\ mask' = FEATURE_MASK[feature]
  /\ pos_mask' = ShiftRight1(mask')
  /\ retvec' = <<>>
  /\ pc' = "hf_loop"
  /\ UNCHANGED <<vector, feature, binary, seen>>
  /\ UNCHANGED tokVars
  /\ UNCHANGED libVars

\* mutant: a negative element is passed over
HfNaNDropped ==
  /\ pc = "hf_loop"
  /\ seen < Len(vector)
  /\ IsNegative(vector[seen + 1])
  /\ seen' = seen + 1
  /\ UNCHANGED <<pc, vector, feature, binary, mask, pos_mask, retvec>>
  /\ UNCHANGED tokVars
  /\ UNCHANGED libVars

\* lines 185-187
HfNaN ==
  /\ pc = "hf_loop"
  /\ seen < Len(vector)
  /\ IsNegative(vector[seen + 1])
  /\ retvec' = Append(retvec, NaN)
  /\ seen' = seen + 1
  /\ UNCHANGED <<pc, vector, feature, binary, mask, pos_mask>>
  /\ UNCHANGED tokVars
  /\ UNCHANGED libVars

\* lines 185, 188-197
HfDecode ==
  /\ pc = "hf_loop"
  /\ seen < Len(vector)
  /\ ~IsNegative(vector[seen + 1])
  /\ retvec' = Append(retvec,
                      PyNum(Decode(vector[seen + 1], mask, pos_mask, binary)))
  /\ seen' = seen + 1
  /\ UNCHANGED <<pc, vector, feature, binary, mask, pos_mask>>
  /\ UNCHANGED tokVars
  /\ UNCHANGED libVars

HfExit ==
  /\ pc = "hf_loop"
  /\ seen = Len(vector)
  /\ pc' = "hf_done"
  /\ UNCHANGED hfVars
  /\ UNCHANGED tokVars
  /\ UNCHANGED libVars

HfLocalsGone ==
  /\ vector' = <<>>
  /\ feature' = ""
  /\ binary' = FALSE
  /\ mask' = Zero
  /\ pos_mask' = Zero
  /\ seen' = 0
  /\ retvec' = <<>>

\* the call returns retvec and its locals go
HfReturn ==
  /\ pc = "hf_done"
  /\ pc' = "idle"
  /\ HfLocalsGone
  /\ UNCHANGED tokVars
  /\ UNCHANGED libVars

\* the AttributeError leaves the call and its locals go
HfUnwind ==
  /\ pc = "hf_raised"
  /\ pc' = "idle"
  /\ HfLocalsGone
  /\ UNCHANGED tokVars
  /\ UNCHANGED libVars

-----------------------------------------------------------------------------
(* The specification *)

Init ==
  /\ pc = "idle"
  /\ raw = <<>>
  /\ ipa = <<>>
  /\ pos = 0
  /\ features = <<>>
  /\ vector = <<>>
  /\ feature = ""
  /\ binary = FALSE
  /\ mask = Zero
  /\ pos_mask = Zero
  /\ seen = 0
  /\ retvec = <<>>
  /\ qargs = None
  /\ qg = None
  /\ ct = None
  /\ ret = None

TokLoop == Tok3 \/ Tok2 \/ Tok1 \/ TokUnknown \/ TokExit

HfLoop == HfRaise \/ HfSetup \/ HfNaN \/ HfDecode \/ HfExit

Next ==
  \/ \E s \in RawInputs : IpaEnter(s)
  \/ Tok3
  \/ Tok2
  \/ Tok1
  \/ TokUnknown
  \/ TokExit
  \/ IpaReturn
  \/ \E vs \in VectorInputs, f \in FeatureInputs, b \in BOOLEAN : HfEnter(vs, f, b)
  \/ HfRaise
  \/ HfSetup
  \/ HfNaN
  \/ HfDecode
  \/ HfExit
  \/ HfReturn
  \/ HfUnwind

Spec == Init /\ [][Next]_vars

\* a call that has started runs on: the interpreter keeps executing it
FairSpec == Spec /\ WF_vars(TokLoop) /\ WF_vars(HfLoop)

-----------------------------------------------------------------------------
(* Concurrent callers: each thread runs calls of its own, one loop pass   *)
(* or statement group at a time, in any interleaving.  Every variable is *)
(* a function of the thread: the locals of a call live in its frame.     *)

\* the number of threads
MaxThreads == 2

Threads == 1..MaxThreads

\* arguments of the concurrent calls: "ts0", "0t" and "t"; [-1, t], [m] and
\* []; a name of the table and one that is not a name
ConcRawInputs == {<<116, 115, 48>>, <<48, 116>>, <<116>>}

ConcVectorInputs ==
  {<<NegOne, PHONETIC_FEATURES[<<116>>]>>, <<PHONETIC_FEATURES[<<109>>]>>, <<>>}

ConcFeatureInputs == {"nasal", "not_a_feature"}

\* lines 142-153: what one pass of the while loop appends and adds to pos
Iteration(s, p) ==
  IF Match3(s, p)
  THEN [emit |-> PHONETIC_FEATURES[Slice(s, p, p + 3)], adv |-> 3]
  ELSE IF Match2(s, p)
       THEN [emit |-> PHONETIC_FEATURES[Slice(s, p, p + 2)], adv |-> 2]
  ELSE IF Match1(s, p)
       THEN [emit |-> PHONETIC_FEATURES[<<s[p + 1]>>], adv |-> 1]
  ELSE [emit |-> NegOne, adv |-> 1]

CIpaEnter(t, s) ==
  /\ pc[t] = "idle"
  /\ pc' = [pc EXCEPT ![t] = "tok"]
  /\ raw' = [raw EXCEPT ![t] = s]
  /\ features' = [features EXCEPT ![t] = <<>>]
  /\ pos' = [pos EXCEPT ![t] = 0]
  /\ ipa' = [ipa EXCEPT ![t] = Normalize(s)]
  /\ UNCHANGED hfVars
  /\ UNCHANGED libVars

\* mutant: pos is one module-level variable that every thread's loop writes
CTokIterSharedPos(t) ==
  /\ pc[t] = "tok"
  /\ pos[t] < Len(ipa[t])
  /\ features' = [features EXCEPT ![t] = Append(@, Iteration(ipa[t], pos[t]).emit)]
  /\ pos' = [u \in Threads |-> pos[t] + Iteration(ipa[t], pos[t]).adv]
  /\ UNCHANGED <<pc, raw, ipa>>
  /\ UNCHANGED hfVars
  /\ UNCHANGED libVars

\* lines 141-153: one pass of the while loop of thread t
CTokIter(t) ==
  /\ pc[t] = "tok"
  /\ pos[t] < Len(ipa[t])
  /\ features' = [features EXCEPT ![t] = Append(@, Iteration(ipa[t], pos[t]).emit)]
  /\ pos' = [pos EXCEPT ![t] = @ + Iteration(ipa[t], pos[t]).adv]
  /\ UNCHANGED <<pc, raw, ipa>>
  /\ UNCHANGED hfVars
  /\ UNCHANGED libVars

CTokExit(t) ==
  /\ pc[t] = "tok"
  /\ ~(pos[t] < Len(ipa[t]))
  /\ pc' = [pc EXCEPT ![t] = "tok_done"]
  /\ UNCHANGED tokVars
  /\ UNCHANGED hfVars
  /\ UNCHANGED libVars

CIpaReturn(t) ==
  /\ pc[t] = "tok_done"
  /\ pc' = [pc EXCEPT ![t] = "idle"]
  /\ raw' = [raw EXCEPT ![t] = <<>>]
  /\ ipa' = [ipa EXCEPT ![t] = <<>>]
  /\ pos' = [pos EXCEPT ![t] = 0]
  /\ features' = [features EXCEPT ![t] = <<>>]
  /\ UNCHANGED hfVars
  /\ UNCHANGED libVars

CHfEnter(t, vs, f, b) ==
  /\ pc[t] = "idle"
  /\ pc' = [pc EXCEPT ![t] = "hf_check"]
  /\ vector' = [vector EXCEPT ![t] = vs]
  /\ feature' = [feature EXCEPT ![t] = f]
  /\ binary' = [binary EXCEPT ![t] = b]
  /\ UNCHANGED <<mask, pos_mask, seen, retvec>>
  /\ UNCHANGED tokVars
  /\ UNCHANGED libVars

\* lines 173-178
CHfRaise(t) ==
  /\ pc[t] = "hf_check"
  /\ feature[t] \notin DOMAIN FEATURE_MASK
  /\ pc' = [pc EXCEPT ![t] = "hf_raised"]
  /\ UNCHANGED hfVars
  /\ UNCHANGED tokVars
  /\ UNCHANGED libVars

\* lines 181-184
CHfSetup(t) ==
  /\ pc[t] = "hf_check"
  /\ feature[t] \in DOMAIN FEATURE_MASK
  /\ pc' = [pc EXCEPT ![t] = "hf_loop"]
  /\ mask' = [mask EXCEPT ![t] = FEATURE_MASK[feature[t]]]
  /\ pos_mask' = [pos_mask EXCEPT ![t] = ShiftRight1(FEATURE_MASK[feature[t]])]
  /\ retvec' = [retvec EXCEPT ![t] = <<>>]
  /\ UNCHANGED <<vector, feature, binary, seen>>
  /\ UNCHANGED tokVars
  /\ UNCHANGED libVars

\* lines 185-197: one pass of the for loop of thread t
CHfIter(t) ==
  /\ pc[t] = "hf_loop"
  /\ seen[t] < Len(vector[t])
  /\ LET char == vector[t][seen[t] + 1]
     IN retvec' = [retvec EXCEPT ![t] =
                     Append(@, IF IsNegative(char) THEN NaN
                               ELSE PyNum(Decode(char, mask[t], pos_mask[t],
                                                 binary[t])))]
  /\ seen' = [seen EXCEPT ![t] = @ + 1]
  /\ UNCHANGED <<pc, vector, feature, binary, mask, pos_mask>>
  /\ UNCHANGED tokVars
  /\ UNCHANGED libVars

CHfExit(t) ==
  /\ pc[t] = "hf_loop"
  /\ seen[t] = Len(vector[t])
  /\ pc' = [pc EXCEPT ![t] = "hf_done"]
  /\ UNCHANGED hfVars
  /\ UNCHANGED tokVars
  /\ UNCHANGED libVars

\* the call of thread t is left, by return or by the AttributeError
CHfLeave(t) ==
  /\ pc[t] \in {"hf_done", "hf_raised"}
  /\ pc' = [pc EXCEPT ![t] = "idle"]
  /\ vector' = [vector EXCEPT ![t] = <<>>]
  /\ feature' = [feature EXCEPT ![t] = ""]
  /\ binary' = [binary EXCEPT ![t] = FALSE]
  /\ mask' = [mask EXCEPT ![t] = Zero]
  /\ pos_mask' = [pos_mask EXCEPT ![t] = Zero]
  /\ seen' = [seen EXCEPT ![t] = 0]
  /\ retvec' = [retvec EXCEPT ![t] = <<>>]
  /\ UNCHANGED tokVars
  /\ UNCHANGED libVars

ConcInit ==
  /\ pc = [t \in Threads |-> "idle"]
  /\ raw = [t \in Threads |-> <<>>]
  /\ ipa = [t \in Threads |-> <<>>]
  /\ pos = [t \in Threads |-> 0]
  /\ features = [t \in Threads |-> <<>>]
  /\ vector = [t \in Threads |-> <<>>]
  /\ feature = [t \in Threads |-> ""]
  /\ binary = [t \in Threads |-> FALSE]
  /\ mask = [t \in Threads |-> Zero]
  /\ pos_mask = [t \in Threads |-> Zero]
  /\ seen = [t \in Threads |-> 0]
  /\ retvec = [t \in Threads |-> <<>>]
  /\ qargs = None
  /\ qg = None
  /\ ct = None
  /\ ret = None

ConcNext ==
  \E t \in Threads :
    \/ \E s \in ConcRawInputs : CIpaEnter(t, s)
    \/ CTokIter(t)
    \/ CTokExit(t)
    \/ CIpaReturn(t)
    \/ \E vs \in ConcVectorInputs, f \in ConcFeatureInputs, b \in BOOLEAN :
         CHfEnter(t, vs, f, b)
    \/ CHfRaise(t)
    \/ CHfSetup(t)
    \/ CHfIter(t)
    \/ CHfExit(t)
    \/ CHfLeave(t)

ConcSpec == ConcInit /\ [][ConcNext]_vars

-----------------------------------------------------------------------------
(* abydos.qgram: the class QGrams, a Counter of the q-grams of a term.    *)
(* The object is the record of its attributes term, term_ss and           *)
(* ordered_list and of its Counter contents, a function from the q-grams  *)
(* it holds to their counts.                                              *)

\* longest term passed to QGrams
MaxTermLen == 3
\* largest qval passed to QGrams
MaxQval == 3

\* codepoints of the terms: A and T
TermAlphabet == {65, 84}
TermInputs == SeqsUpTo(TermAlphabet, MaxTermLen)
\* qval: negative, 0 and the lengths up to MaxQval
QvalInputs == (-1)..MaxQval
\* start_stop: the empty string, the default '$#' and the one-character '$'
StartStopInputs == {<<>>, <<36, 35>>, <<36>>}

\* c * n for a one-character string c
Repeat(c, n) == [i \in 1..n |-> c]

\* mutant: line 76 pads the front only
TermWithStartOnly(term, qval, start_stop) ==
  IF start_stop # <<>> /\ qval > 1
  THEN Repeat(start_stop[1], qval - 1) \o term
  ELSE term

\* lines 75-76: the term with its start and stop characters
TermWithStartStop(term, qval, start_stop) ==
  IF start_stop # <<>> /\ qval > 1
  THEN Repeat(start_stop[1], qval - 1) \o term
         \o Repeat(start_stop[Len(start_stop)], qval - 1)
  ELSE term

\* lines 79-80: the windows term[i:i+qval] for i in range(len(term)-(qval-1))
Windows(term, qval) ==
  [i \in 1..(Len(term) - (qval - 1)) |-> Slice(term, i - 1, i - 1 + qval)]

\* line 81: Counter(iterable) counts the elements one after the other
RECURSIVE CounterOf(_)
CounterOf(list) ==
  IF list = <<>> THEN <<>>
  ELSE LET c == CounterOf(SubSeq(list, 1, Len(list) - 1))
           g == list[Len(list)]
       IN [h \in DOMAIN c \cup {g} |->
             (IF h \in DOMAIN c THEN c[h] ELSE 0) + (IF h = g THEN 1 ELSE 0)]

\* line 101: sum(self.values())
RECURSIVE SumValues(_)
SumValues(c) ==
  IF DOMAIN c = {} THEN 0
  ELSE LET g == CHOOSE h \in DOMAIN c : TRUE
       IN c[g] + SumValues([h \in DOMAIN c \ {g} |-> c[h]])

\* mutant: lines 75-77 stand before the test of line 73
QGramsInitEarlyAfterPadding(term, qval, start_stop) ==
  /\ Len(term) < qval \/ qval < 1
  /\ qargs' = [term |-> term, qval |-> qval, start_stop |-> start_stop]
  /\ qg' = [term |-> term,
            term_ss |-> TermWithStartStop(term, qval, start_stop),
            ordered_list |-> <<>>,
            counter |-> <<>>]
  /\ ret' = None
  /\ UNCHANGED ct
  /\ UNCHANGED callVars

\* lines 72-74: the constructor returns early; term_ss and ordered_list
\* are the class attributes of lines 42-43 and the Counter is empty
QGramsInitEarly(term, qval, start_stop) ==
  /\ Len(term) < qval \/ qval < 1
  /\ qargs' = [term |-> term, qval |-> qval, start_stop |-> start_stop]
  /\ qg' = [term |-> term,
            term_ss |-> <<>>,
            ordered_list |-> <<>>,
            counter |-> <<>>]
  /\ ret' = None
  /\ UNCHANGED ct
  /\ UNCHANGED callVars

\* lines 72-81: the constructor runs to its end
QGramsInit(term, qval, start_stop) ==
  /\ ~(Len(term) < qval \/ qval < 1)
  /\ qargs' = [term |-> term, qval |-> qval, start_stop |-> start_stop]
  /\ LET padded == TermWithStartStop(term, qval, start_stop)
     IN qg' = [term |-> term,
               term_ss |-> padded,
               ordered_list |-> Windows(padded, qval),
               counter |-> CounterOf(Windows(padded, qval))]
  /\ ret' = None
  /\ UNCHANGED ct
  /\ UNCHANGED callVars

\* lines 83-101: count() on the object made last
QGramsCount ==
  /\ qg # None
  /\ ret' = [fn |-> "count", args |-> <<>>, val |-> SumValues(qg.counter)]
  /\ UNCHANGED <<qargs, qg, ct>>
  /\ UNCHANGED callVars

QNext ==
  \/ \E term \in TermInputs, qval \in QvalInputs, start_stop \in StartStopInputs :
       QGramsInitEarly(term, qval, start_stop)
  \/ \E term \in TermInputs, qval \in QvalInputs, start_stop \in StartStopInputs :
       QGramsInit(term, qval, start_stop)
  \/ QGramsCount

QSpec == Init /\ [][QNext]_vars

-----------------------------------------------------------------------------
(* abydos.stats: hmean and the statistics of ConfusionTable.  A number is *)
(* the record [n, d] of the fraction n/d in lowest terms with d > 0: the  *)
(* floats of the code are computed exactly, which keeps every test for    *)
(* zero and every NaN as the code has them.  A raised exception is the    *)
(* record of its class.                                                   *)

\* largest value in the argument of hmean
MaxNum == 2
\* longest argument of hmean
MaxNums == 4
\* largest count in a ConfusionTable
MaxCount == 2
\* largest beta passed to fbeta_score
MaxBeta == 2

NumsInputs == SeqsUpTo(0..MaxNum, MaxNums)
CountInputs == 0..MaxCount
BetaInputs == 0..MaxBeta

ZeroDivisionError == [raised |-> "ZeroDivisionError"]
AttributeError == [raised |-> "AttributeError"]
Raised(x) == x \in {ZeroDivisionError, AttributeError}

Abs(n) == IF n < 0 THEN -n ELSE n

RECURSIVE Gcd(_, _)
Gcd(a, b) == IF b = 0 THEN a ELSE Gcd(b, a % b)

\* the number n/d, d # 0
Frac(n, d) ==
  LET g == Gcd(Abs(n), Abs(d))
      s == IF d < 0 THEN -1 ELSE 1
  IN [n |-> s * (n \div g), d |-> s * (d \div g)]

IntVal(n) == Frac(n, 1)

\* x + y and x * y: an exception in an operand leaves the expression, a NaN
\* operand gives NaN
Add(x, y) ==
  IF Raised(x) THEN x ELSE IF Raised(y) THEN y
  ELSE IF x = NaN \/ y = NaN THEN NaN
  ELSE Frac(x.n * y.d + y.n * x.d, x.d * y.d)

Mul(x, y) ==
  IF Raised(x) THEN x ELSE IF Raised(y) THEN y
  ELSE IF x = NaN \/ y = NaN THEN NaN
  ELSE Frac(x.n * y.n, x.d * y.d)

Sub(x, y) == Add(x, Mul(IntVal(-1), y))

\* x / y: a divisor equal to zero raises ZeroDivisionError whatever x is,
\* NaN included
Div(x, y) ==
  IF Raised(x) THEN x ELSE IF Raised(y) THEN y
  ELSE IF y # NaN /\ y.n = 0 THEN ZeroDivisionError
  ELSE IF x = NaN \/ y = NaN THEN NaN
  ELSE Frac(x.n * y.d, x.d * y.n)

\* line 1150: sum(1/i for i in nums)
RECURSIVE SumOfReciprocals(_)
SumOfReciprocals(nums) ==
  IF nums = <<>> THEN IntVal(0)
  ELSE Add(SumOfReciprocals(SubSeq(nums, 1, Len(nums) - 1)),
           Div(IntVal(1), IntVal(nums[Len(nums)])))

\* lines 1135-1150
hmean(nums) ==
  IF Len(nums) < 1 THEN AttributeError
  ELSE IF Len(nums) = 1 THEN IntVal(nums[1])
  ELSE IF \A i \in 2..Len(nums) : nums[1] = nums[i] THEN IntVal(nums[1])
  ELSE IF \E i \in 1..Len(nums) : nums[i] = 0
       THEN IF Cardinality({i \in 1..Len(nums) : nums[i] = 0}) > 1
            THEN NaN
            ELSE IntVal(0)
  ELSE Div(IntVal(Len(nums)), SumOfReciprocals(nums))

Hmean(nums) ==
  /\ ret' = [fn |-> "hmean", args |-> <<nums>>, val |-> hmean(nums)]
  /\ UNCHANGED <<qargs, qg, ct>>
  /\ UNCHANGED callVars

MeanNext == \E nums \in NumsInputs : Hmean(nums)

MeanSpec == Init /\ [][MeanNext]_vars

\* ConfusionTable: the methods, c being the object

\* lines 329-339, 305-327
population(c) == c.tp + c.tn + c.fp + c.fn
cond_pos_pop(c) == c.tp + c.fn
cond_neg_pop(c) == c.fp + c.tn

\* lines 359-361
precision(c) ==
  IF c.tp + c.fp = 0 THEN NaN ELSE Div(IntVal(c.tp), IntVal(c.tp + c.fp))

\* lines 403-405
recall(c) ==
  IF c.tp + c.fn = 0 THEN NaN ELSE Div(IntVal(c.tp), IntVal(c.tp + c.fn))

\* lines 423-425
specificity(c) ==
  IF c.tn + c.fp = 0 THEN NaN ELSE Div(IntVal(c.tn), IntVal(c.tn + c.fp))

\* lines 441-443
npv(c) ==
  IF c.tn + c.fn = 0 THEN NaN ELSE Div(IntVal(c.tn), IntVal(c.tn + c.fn))

\* lines 461-463
fallout(c) ==
  IF c.fp + c.tn = 0 THEN NaN ELSE Div(IntVal(c.fp), IntVal(c.fp + c.tn))

\* lines 479-481
fdr(c) ==
  IF c.fp + c.tp = 0 THEN NaN ELSE Div(IntVal(c.fp), IntVal(c.fp + c.tp))

\* lines 497-499
accuracy(c) ==
  IF population(c) = 0 THEN NaN
  ELSE Div(IntVal(c.tp + c.tn), IntVal(population(c)))

\* lines 378-381
precision_gain(c) ==
  IF population(c) = 0 THEN NaN
  ELSE LET random_precision == Div(IntVal(cond_pos_pop(c)), IntVal(population(c)))
       IN Div(precision(c), random_precision)

\* lines 515-519
accuracy_gain(c) ==
  IF population(c) = 0 THEN NaN
  ELSE LET p == Div(IntVal(cond_pos_pop(c)), IntVal(population(c)))
           n == Div(IntVal(cond_neg_pop(c)), IntVal(population(c)))
           random_accuracy == Add(Mul(p, p), Mul(n, n))
       IN Div(accuracy(c), random_accuracy)

\* lines 873-878
fbeta_score(c, beta) ==
  IF beta <= 0 THEN AttributeError
  ELSE Div(Mul(Mul(IntVal(1 + beta * beta), precision(c)), recall(c)),
           Add(Mul(IntVal(beta * beta), precision(c)), recall(c)))

\* lines 1005-1010: the value is n / sqrt(root), kept as the pair
mcc(c) ==
  LET product == (c.tp + c.fp) * (c.tp + c.fn) * (c.tn + c.fp) * (c.tn + c.fn)
  IN IF product = 0 THEN NaN
     ELSE [n |-> c.tp * c.tn - c.fp * c.fn, root |-> product]

\* lines 1031-1037
significance(c) ==
  LET product == (c.tp + c.fp) * (c.tp + c.fn) * (c.tn + c.fp) * (c.tn + c.fn)
      diff == c.tp * c.tn - c.fp * c.fn
  IN IF product = 0 THEN NaN
     ELSE Div(IntVal(diff * diff * population(c)), IntVal(product))

\* lines 1058-1065
kappa_statistic(c) ==
  IF population(c) = 0 THEN NaN
  ELSE LET random_accuracy ==
             Div(IntVal((c.tn + c.fp) * (c.tn + c.fn) + (c.fn + c.tp) * (c.fp + c.tp)),
                 IntVal(population(c) * population(c)))
       IN Div(Sub(accuracy(c), random_accuracy), Sub(IntVal(1), random_accuracy))

\* lines 86-129 with four ints
CtInit(tp, tn, fp, fn) ==
  /\ ct' = [tp |-> tp, tn |-> tn, fp |-> fp, fn |-> fn]
  /\ ret' = None
  /\ UNCHANGED <<qargs, qg>>
  /\ UNCHANGED callVars

\* a method of the object made last returns val or raises it
Returns(fn, args, val) ==
  /\ ct # None
  /\ ret' = [fn |-> fn, args |-> args, val |-> val]
  /\ UNCHANGED <<qargs, qg, ct>>
  /\ UNCHANGED callVars

Precision == Returns("precision", <<>>, precision(ct))
Recall == Returns("recall", <<>>, recall(ct))
Specificity == Returns("specificity", <<>>, specificity(ct))
Npv == Returns("npv", <<>>, npv(ct))
Fallout == Returns("fallout", <<>>, fallout(ct))
Fdr == Returns("fdr", <<>>, fdr(ct))
Accuracy == Returns("accuracy", <<>>, accuracy(ct))
PrecisionGain == Returns("precision_gain", <<>>, precision_gain(ct))
AccuracyGain == Returns("accuracy_gain", <<>>, accuracy_gain(ct))
FbetaScore(beta) ==
  Returns("fbeta_score", <<beta>>, fbeta_score(ct, beta))
Mcc == Returns("mcc", <<>>, mcc(ct))
Significance == Returns("significance", <<>>, significance(ct))
KappaStatistic == Returns("kappa_statistic", <<>>, kappa_statistic(ct))

TableNext ==
  \/ \E tp, tn, fp, fn \in CountInputs : CtInit(tp, tn, fp, fn)
  \/ Precision
  \/ Recall
  \/ Specificity
  \/ Npv
  \/ Fallout
  \/ Fdr
  \/ Accuracy
  \/ PrecisionGain
  \/ AccuracyGain
  \/ \E beta \in BetaInputs : FbetaScore(beta)
  \/ Mcc
  \/ Significance
  \/ KappaStatistic

TableSpec == Init /\ [][TableNext]_vars

-----------------------------------------------------------------------------
(* Properties *)

\* the exact n-codepoint substring of s at p, if s has one
IsKeyAt(s, p, n) ==
  p + n <= Len(s) /\ SubSeq(s, p + 1, p + n) \in PhoneticFeatureKeys

\* the reference greedy tokenizer: the longest key among the 3-, 2- and
\* 1-codepoint substrings at p, or -1 and one codepoint on
RECURSIVE RefTokens(_, _)
RefTokens(s, p) ==
  IF p >= Len(s) THEN <<>>
  ELSE IF IsKeyAt(s, p, 3)
       THEN <<PHONETIC_FEATURES[SubSeq(s, p + 1, p + 3)]>> \o RefTokens(s, p + 3)
  ELSE IF IsKeyAt(s, p, 2)
       THEN <<PHONETIC_FEATURES[SubSeq(s, p + 1, p + 2)]>> \o RefTokens(s, p + 2)
  ELSE IF IsKeyAt(s, p, 1)
       THEN <<PHONETIC_FEATURES[SubSeq(s, p + 1, p + 1)]>> \o RefTokens(s, p + 1)
  ELSE <<NegOne>> \o RefTokens(s, p + 1)

\* C1: ipa_to_features emits exactly the vectors of the reference greedy
\* tokenizer run on the lower-cased NFC input: what it has emitted so far,
\* followed by the reference's output from pos on, is the reference's output
\* for the whole input, and so is the list it returns.
C1_GreedyRefinement ==
  pc \in {"tok", "tok_done"} =>
    /\ features \o RefTokens(ipa, pos) = RefTokens(ipa, 0)
    /\ pc = "tok_done" => features = RefTokens(ipa, 0)

\* C1 witness: "ts0" has given the one vector of ts, then -1
C1_Witness ==
  /\ pc = "tok_done"
  /\ ipa = <<116, 115, 48>>
  /\ features = <<PHONETIC_FEATURES[<<116, 115>>], NegOne>>

\* C2: total coverage: when the loop has ended, the amounts by which pos
\* was advanced sum to the length of the lower-cased NFC input.
C2_TotalCoverage == pc = "tok_done" => pos = Len(ipa)

\* C3: for every key k of PHONETIC_FEATURES, ipa_to_features(k) returns the
\* one-element list [PHONETIC_FEATURES[k]].
C3_KeyGivesItsVector ==
  (pc = "tok_done" /\ raw \in DOMAIN PHONETIC_FEATURES) =>
    features = <<PHONETIC_FEATURES[raw]>>

\* C3 witness: "pf" has given one vector
C3_Witness ==
  /\ pc = "tok_done"
  /\ raw = <<112, 102>>
  /\ Len(features) = 1

\* the two bits of the field of feature f in v, upper bit first
FieldOf(v, f) ==
  LET m == FEATURE_MASK[f].bits
      hi == CHOOSE b \in m : \A c \in m : c <= b
      lo == CHOOSE b \in m : \A c \in m : b <= c
  IN <<IF hi \in v.bits THEN 1 ELSE 0, IF lo \in v.bits THEN 1 ELSE 0>>

\* a finished ternary call on one table vector
TernaryCallOnTableVector ==
  /\ pc = "hf_done"
  /\ ~binary
  /\ Len(vector) = 1
  /\ vector[1] \in TableVectors

\* C4 as stated: for every feature name and table vector v,
\* has_feature([v], name) is [1] with the field 11, [-1] with the field 10
\* or [0] with the field 00.
C4_AsStated ==
  TernaryCallOnTableVector =>
    \/ FieldOf(vector[1], feature) = <<1, 1>> /\ retvec = <<PyNum(1)>>
    \/ FieldOf(vector[1], feature) = <<1, 0>> /\ retvec = <<PyNum(-1)>>
    \/ FieldOf(vector[1], feature) = <<0, 0>> /\ retvec = <<PyNum(0)>>

\* C4 amended: for every feature name and table vector v,
\* has_feature([v], name) is [1] with the field 01, [-1] with the field 10
\* or [0] with the field 00; no field of a table vector is 11.
C4_TableDecoding ==
  TernaryCallOnTableVector =>
    \/ FieldOf(vector[1], feature) = <<0, 1>> /\ retvec = <<PyNum(1)>>
    \/ FieldOf(vector[1], feature) = <<1, 0>> /\ retvec = <<PyNum(-1)>>
    \/ FieldOf(vector[1], feature) = <<0, 0>> /\ retvec = <<PyNum(0)>>

\* C4 witness: t is consonantal, its field there is 01
C4_Witness ==
  /\ TernaryCallOnTableVector
  /\ vector[1] = PHONETIC_FEATURES[<<116>>]
  /\ feature = "consonantal"
  /\ FieldOf(vector[1], feature) = <<0, 1>>
  /\ retvec = <<PyNum(1)>>

\* -1 becomes 0, every other element stays
Collapse(x) == IF x = PyNum(-1) THEN PyNum(0) ELSE x

\* C5: with a valid feature name, the list a binary call returns is the list
\* of the ternary call on the same vector with every -1 replaced by 0 and
\* every other element, NaN included, kept at its index.
C5_BinaryCollapsesMinus ==
  (pc = "hf_done" /\ binary) =>
    retvec = [i \in 1..Len(vector) |->
                Collapse(HasFeature(vector, feature, FALSE)[i])]

\* C5 witness: a binary call on [t, -1] for voice, where t decodes to -1
C5_Witness ==
  /\ pc = "hf_done"
  /\ binary
  /\ feature = "voice"
  /\ vector = <<PHONETIC_FEATURES[<<116>>], NegOne>>
  /\ HasFeature(vector, feature, FALSE) = <<PyNum(-1), NaN>>
  /\ retvec = <<PyNum(0), NaN>>

\* C6: a call with a feature that is no key of FEATURE_MASK raises at once:
\* it stands at the check, where raising is its next step, or has raised,
\* and it has taken no element of the vector and appended nothing.
C6_InvalidNameRaisesFirst ==
  (pc \in {"hf_check", "hf_loop", "hf_done", "hf_raised"}
     /\ feature \notin DOMAIN FEATURE_MASK) =>
    /\ pc \in {"hf_check", "hf_raised"}
    /\ pc = "hf_check" => ENABLED HfRaise
    /\ seen = 0
    /\ retvec = <<>>

\* C6 witness: a binary call on [-1, t] has raised
C6_Witness ==
  /\ pc = "hf_raised"
  /\ binary
  /\ vector = <<NegOne, PHONETIC_FEATURES[<<116>>]>>

\* no key of 1, 2 or 3 codepoints starts at p
NoKeyAt(s, p) == \A n \in 1..3 : ~IsKeyAt(s, p, n)

\* C7: at a codepoint where no key matches, the tokenizer appends one -1,
\* moves on by one codepoint and stays in the loop; "0" alone gives [-1].
C7_UnknownGivesSentinel ==
  /\ [][(pc = "tok" /\ pos < Len(ipa) /\ NoKeyAt(ipa, pos)) =>
          /\ pc' = "tok"
          /\ features' = Append(features, NegOne)
          /\ pos' = pos + 1]_vars
  /\ []((pc = "tok_done" /\ ipa = <<48>>) => features = <<NegOne>>)

\* C7 witness: "0t" has given -1, then the vector of t
C7_Witness ==
  /\ pc = "tok_done"
  /\ ipa = <<48, 116>>
  /\ features = <<NegOne, PHONETIC_FEATURES[<<116>>]>>

\* C8: with a valid feature name, in either mode, the returned list has NaN
\* at the index of every -1 of the vector, and at every other index the
\* value the element there decodes to on its own.
C8_SentinelGivesNaN ==
  pc = "hf_done" =>
    /\ Len(retvec) = Len(vector)
    /\ \A i \in 1..Len(vector) :
         IF IsNegative(vector[i])
         THEN retvec[i] = NaN
         ELSE /\ retvec[i] # NaN
              /\ <<retvec[i]>> = HasFeature(<<vector[i]>>, feature, binary)

\* C8 witness: a binary call on [-1, m] for nasal
C8_Witness ==
  /\ pc = "hf_done"
  /\ binary
  /\ feature = "nasal"
  /\ vector = <<NegOne, PHONETIC_FEATURES[<<109>>]>>
  /\ retvec = <<NaN, PyNum(1)>>

\* C9: every iteration of the tokenizer loop moves pos up by 1, 2 or 3 and
\* appends one element, there are at most len(ipa) iterations, and a loop
\* that has started ends.
C9_LoopTerminates ==
  /\ [][(pc = "tok" /\ pc' = "tok" /\ <<pos, features>>' # <<pos, features>>) =>
          /\ pos' - pos \in 1..3
          /\ Len(features') = Len(features) + 1
          /\ Len(features') <= Len(ipa)]_vars
  /\ [][(pc = "tok" /\ pc' = "tok_done") => pos >= Len(ipa)]_vars
  /\ (pc = "tok") ~> (pc = "tok_done")

\* C9 witness: a loop over three codepoints has ended after three iterations
C9_Witness ==
  /\ pc = "tok_done"
  /\ Len(ipa) = 3
  /\ Len(features) = 3

\* C10: every mask of FEATURE_MASK is one aligned 2-bit field, both bits set
\* and no other bit, masks of different names share no bit, and the mask a
\* call works with is the one of its feature.
C10_MasksAreDisjointFields ==
  /\ \A f \in DOMAIN FEATURE_MASK :
       /\ ~FEATURE_MASK[f].neg
       /\ \E b \in FEATURE_MASK[f].bits :
            b % 2 = 0 /\ FEATURE_MASK[f].bits = {b, b + 1}
  /\ \A f, g \in DOMAIN FEATURE_MASK :
       f # g => FEATURE_MASK[f].bits \cap FEATURE_MASK[g].bits = {}
  /\ pc \in {"hf_loop", "hf_done"} => mask = FEATURE_MASK[feature]

\* C10 witness: a call for nasal works with the mask 0b11
C10_Witness ==
  /\ pc = "hf_loop"
  /\ feature = "nasal"
  /\ mask = Bin(<<1, 1>>)

\* the positions of the bits set in some mask
MaskUnion == UNION {FEATURE_MASK[f].bits : f \in DOMAIN FEATURE_MASK}

\* C11 as stated: the union of all masks is the full 48-bit space, 2^48 - 1.
C11_AsStated ==
  pc \in {"hf_loop", "hf_done"} => mask.bits \subseteq MaskUnion /\ MaskUnion = 0..47

\* C11 amended: the union of all masks is the full 46-bit space, 2^46 - 1,
\* and the mask a call works with lies in it.
C11_MasksCover46Bits ==
  pc \in {"hf_loop", "hf_done"} => mask.bits \subseteq MaskUnion /\ MaskUnion = 0..45

\* C11 witness: a call for consonantal works with the two top bits, 45 and 44
C11_Witness ==
  /\ pc = "hf_loop"
  /\ feature = "consonantal"
  /\ mask.bits = {44, 45}

\* the names the message of the AttributeError lists
NamesInMessage ==
  {"consonantal", "sonorant", "syllabic", "labial", "round", "coronal",
   "anterior", "distributed", "dorsal", "high", "low", "back", "tense",
   "pharyngeal", "ATR", "voice", "spread_glottis", "constricted_glottis",
   "continuant", "strident", "lateral", "delayed_release", "nasal"}

\* a call gets past the check with the names of FEATURE_MASK and no other
AcceptsExactlyTheNames ==
  /\ pc \in {"hf_loop", "hf_done"} => feature \in DOMAIN FEATURE_MASK
  /\ pc = "hf_raised" => feature \notin DOMAIN FEATURE_MASK
  /\ pc = "hf_check" =>
       /\ feature \in DOMAIN FEATURE_MASK => ENABLED HfSetup /\ ~ENABLED HfRaise
       /\ feature \notin DOMAIN FEATURE_MASK => ENABLED HfRaise /\ ~ENABLED HfSetup

\* C12 as stated: FEATURE_MASK has exactly 24 names, one per 2-bit field,
\* and has_feature accepts exactly those.
C12_AsStated ==
  /\ pc \in {"hf_check", "hf_loop", "hf_done", "hf_raised"} =>
       /\ Cardinality(DOMAIN FEATURE_MASK) = 24
       /\ Cardinality({FEATURE_MASK[f] : f \in DOMAIN FEATURE_MASK}) = 24
  /\ AcceptsExactlyTheNames

\* C12 amended: FEATURE_MASK has exactly 23 names, the ones the error
\* message lists, one per 2-bit field, and has_feature accepts exactly those.
C12_TwentyThreeNames ==
  /\ pc \in {"hf_check", "hf_loop", "hf_done", "hf_raised"} =>
       /\ Cardinality(DOMAIN FEATURE_MASK) = 23
       /\ DOMAIN FEATURE_MASK = NamesInMessage
       /\ Cardinality({FEATURE_MASK[f] : f \in DOMAIN FEATURE_MASK}) = 23
  /\ AcceptsExactlyTheNames

\* C12 witness: a call for nasal, the 23rd name, is past the check
C12_Witness ==
  /\ pc = "hf_done"
  /\ feature = "nasal"
  /\ vector = <<PHONETIC_FEATURES[<<109>>]>>
  /\ retvec = <<PyNum(1)>>

\* the encodings that occur in the fields of the table vectors
TableFieldValues ==
  {FieldOf(v, f) : v \in TableVectors, f \in DOMAIN FEATURE_MASK}

\* C13 as stated: every field of every table vector is 00, 10 or 11, and the
\* tokenizer emits no vector with a field 01.
C13_AsStated ==
  /\ features # <<>> => TableFieldValues \subseteq {<<0, 0>>, <<1, 0>>, <<1, 1>>}
  /\ \A i \in 1..Len(features), f \in DOMAIN FEATURE_MASK :
       ~IsNegative(features[i]) =>
         FieldOf(features[i], f) \in {<<0, 0>>, <<1, 0>>, <<1, 1>>}

\* C13 amended: every field of every table vector is 00, 10 or 01, and the
\* tokenizer emits no vector with a field 11.
C13_FieldsAre00_10_01 ==
  /\ features # <<>> => TableFieldValues \subseteq {<<0, 0>>, <<1, 0>>, <<0, 1>>}
  /\ \A i \in 1..Len(features), f \in DOMAIN FEATURE_MASK :
       ~IsNegative(features[i]) =>
         FieldOf(features[i], f) \in {<<0, 0>>, <<1, 0>>, <<0, 1>>}

\* C13 witness: the tokenizer has emitted the vector of t, whose
\* consonantal field is 01, sonorant field 10 and round field 00
C13_Witness ==
  /\ pc = "tok_done"
  /\ ipa = <<116>>
  /\ Len(features) = 1
  /\ FieldOf(features[1], "consonantal") = <<0, 1>>
  /\ FieldOf(features[1], "sonorant") = <<1, 0>>
  /\ FieldOf(features[1], "round") = <<0, 0>>

\* the positions of the bits set in some table vector
TableBits == UNION {v.bits : v \in TableVectors}

\* C14: the bits set in a table vector are bits of some mask, and so are the
\* bits of every vector the tokenizer emits.
C14_NoStrayBits ==
  /\ TableBits \subseteq MaskUnion
  /\ \A i \in 1..Len(features) :
       ~IsNegative(features[i]) => features[i].bits \subseteq MaskUnion

\* C14 witness: the tokenizer has emitted the vector of h, whose top bit,
\* bit 45, is set
C14_Witness ==
  /\ pc = "tok_done"
  /\ ipa = <<104>>
  /\ Len(features) = 1
  /\ 45 \in features[1].bits


\* no value of the table is negative
NoNegativeTableVector == \A v \in TableVectors : ~IsNegative(v)

\* C15: the marker is out of band: no table value is negative, and the
\* element an iteration appends is -1 exactly when no key starts at pos, and
\* is a stored table vector otherwise.
C15_SentinelOutOfBand ==
  [][(pc = "tok" /\ features' # features) =>
       LET e == features'[Len(features')]
       IN /\ NoNegativeTableVector
          /\ features' = Append(features, e)
          /\ e = NegOne <=> NoKeyAt(ipa, pos)
          /\ IsNegative(e) <=> e = NegOne
          /\ e # NegOne => e \in TableVectors]_vars

\* C15 witness: "s0" has given the vector of s, which is not negative, then -1
C15_Witness ==
  /\ pc = "tok_done"
  /\ ipa = <<115, 48>>
  /\ features = <<PHONETIC_FEATURES[<<115>>], NegOne>>
  /\ ~IsNegative(features[1])


\* str.upper() of one codepoint, for the codepoints of the table keys and of
\* RawAlphabet
UpperCp(c) ==
  CASE c = 97 -> <<65>> [] c = 98 -> <<66>> [] c = 99 -> <<67>>
    [] c = 100 -> <<68>> [] c = 101 -> <<69>> [] c = 102 -> <<70>>
    [] c = 103 -> <<71>> [] c = 104 -> <<72>> [] c = 105 -> <<73>>
    [] c = 106 -> <<74>> [] c = 107 -> <<75>> [] c = 108 -> <<76>>
    [] c = 109 -> <<77>> [] c = 110 -> <<78>> [] c = 111 -> <<79>>
    [] c = 112 -> <<80>> [] c = 113 -> <<81>> [] c = 114 -> <<82>>
    [] c = 115 -> <<83>> [] c = 116 -> <<84>> [] c = 117 -> <<85>>
    [] c = 118 -> <<86>> [] c = 119 -> <<87>> [] c = 120 -> <<88>>
    [] c = 121 -> <<89>> [] c = 122 -> <<90>> [] c = 230 -> <<198>>
    [] c = 231 -> <<199>> [] c = 240 -> <<208>> [] c = 248 -> <<216>>
    [] c = 295 -> <<294>> [] c = 331 -> <<330>> [] c = 339 -> <<338>>
    [] c = 596 -> <<390>> [] c = 601 -> <<399>> [] c = 603 -> <<400>>
    [] c = 611 -> <<404>> [] c = 613 -> <<42893>> [] c = 614 -> <<42922>>
    [] c = 618 -> <<42926>> [] c = 620 -> <<42925>> [] c = 623 -> <<412>>
    [] c = 626 -> <<413>> [] c = 640 -> <<422>> [] c = 643 -> <<425>>
    [] c = 650 -> <<433>> [] c = 658 -> <<439>> [] c = 669 -> <<42930>>
    [] c = 946 -> <<914>> [] c = 952 -> <<920>> [] c = 967 -> <<935>>
    [] OTHER -> <<c>>

RECURSIVE Upper(_)
Upper(s) == IF s = <<>> THEN <<>> ELSE UpperCp(Head(s)) \o Upper(Tail(s))

\* s is a concatenation of table keys
RECURSIVE IsKeyConcat(_)
IsKeyConcat(s) ==
  \/ s = <<>>
  \/ \E n \in 1..Min(3, Len(s)) :
       /\ SubSeq(s, 1, n) \in PhoneticFeatureKeys
       /\ IsKeyConcat(SubSeq(s, n + 1, Len(s)))

\* C16: for a string s of recognized segments, the list ipa_to_features(s)
\* returns is the list it returns for s.upper(); and whatever s is, the list
\* is the one the loop gives for the lower-cased NFC form of s.
C16_UpperCaseSameVectors ==
  pc = "tok_done" =>
    /\ IsKeyConcat(raw) => features = IpaToFeatures(Upper(raw))
    /\ features = TokenizeFrom(Normalize(raw), 0)

\* C16 witness: "tsc", whose upper-case form is "TSC", has given the vectors
\* of ts and c
C16_Witness ==
  /\ pc = "tok_done"
  /\ raw = <<116, 115, 99>>
  /\ Upper(raw) = <<84, 83, 67>>
  /\ features = <<PHONETIC_FEATURES[<<116, 115>>], PHONETIC_FEATURES[<<99>>]>>


\* the elements a call in mode b may return
ValuesOfMode(b) ==
  IF b THEN {PyNum(0), PyNum(1), NaN} ELSE {PyNum(-1), PyNum(0), PyNum(1), NaN}

\* C17: with a valid feature name the loop appends one value per element
\* taken, so the returned list is as long as the vector; element i is the
\* value of vector[i] alone, the same wherever that element stands; and each
\* value is -1, 0, 1 or NaN in ternary mode and 0, 1 or NaN in binary mode.
C17_ElementwiseDecoding ==
  pc \in {"hf_loop", "hf_done"} =>
    /\ Len(retvec) = seen
    /\ pc = "hf_done" => Len(retvec) = Len(vector)
    /\ \A i \in 1..Len(retvec) :
         /\ retvec[i] \in ValuesOfMode(binary)
         /\ <<retvec[i]>> = HasFeature(<<vector[i]>>, feature, binary)
         /\ \A j \in 1..Len(retvec) : vector[i] = vector[j] => retvec[i] = retvec[j]

\* C17 witness: a ternary call on [m, t] for nasal has returned [1, -1]
C17_Witness ==
  /\ pc = "hf_done"
  /\ ~binary
  /\ feature = "nasal"
  /\ vector = <<PHONETIC_FEATURES[<<109>>], PHONETIC_FEATURES[<<116>>]>>
  /\ retvec = <<PyNum(1), PyNum(-1)>>


\* nothing of an earlier call is left: the state between calls is the state
\* before the first call
NothingKept ==
  /\ raw = <<>> /\ ipa = <<>> /\ pos = 0 /\ features = <<>>
  /\ vector = <<>> /\ feature = "" /\ binary = FALSE
  /\ mask = Zero /\ pos_mask = Zero /\ seen = 0 /\ retvec = <<>>

\* C18: while a call runs its arguments stay as passed and the other
\* function's variables are not touched; what a call returns, or that it
\* raises, is a function of its own arguments; and between calls, after a
\* return or a raise, nothing of the call is kept.  (The two tables are
\* constants of the model: no statement of the module assigns to them.)
C18_NoCrossCallMemory ==
  /\ [][(pc # "idle" /\ pc' # "idle") =>
          <<raw, vector, feature, binary>>' = <<raw, vector, feature, binary>>]_vars
  /\ [][(pc \in {"tok", "tok_done"} /\ pc' # "idle") =>
          hfVars' = hfVars]_vars
  /\ [][(pc \in {"hf_check", "hf_loop", "hf_done", "hf_raised"}) =>
          tokVars' = tokVars]_vars
  /\ [](pc = "tok_done" => features = IpaToFeatures(raw))
  /\ [](pc = "hf_done" =>
          /\ feature \in DOMAIN FEATURE_MASK
          /\ retvec = HasFeature(vector, feature, binary))
  /\ [](pc = "hf_raised" => feature \notin DOMAIN FEATURE_MASK)
  /\ [](pc = "idle" => NothingKept)

\* C18 witness: a ternary call on [t] has raised, its vector as passed and
\* the tokenizer's variables as they were
C18_Witness ==
  /\ pc = "hf_raised"
  /\ ~binary
  /\ vector = <<PHONETIC_FEATURES[<<116>>]>>
  /\ feature = "not_a_feature"
  /\ tokVars = <<<<>>, <<>>, 0, <<>>>>


\* C20: on the empty string the tokenizer's loop body is never entered and
\* the empty list is returned; on an empty vector, with a valid feature
\* name, has_feature's loop body is never entered and the empty list is
\* returned.
C20_EmptyInEmptyOut ==
  /\ (pc \in {"tok", "tok_done"} /\ raw = <<>>) =>
       /\ ipa = <<>> /\ pos = 0 /\ features = <<>>
       /\ pc = "tok" =>
            /\ ENABLED TokExit
            /\ ~ENABLED (Tok3 \/ Tok2 \/ Tok1 \/ TokUnknown)
  /\ (pc \in {"hf_loop", "hf_done"} /\ vector = <<>>) =>
       /\ seen = 0 /\ retvec = <<>>
       /\ pc = "hf_loop" =>
            /\ ENABLED HfExit
            /\ ~ENABLED (HfNaN \/ HfDecode)

\* C20 witness: the call on the empty string is at its return with nothing
\* appended
C20_Witness ==
  /\ pc = "tok_done"
  /\ raw = <<>>
  /\ ipa = <<>>
  /\ features = <<>>


\* C19: with the calls of several threads interleaved pass by pass, each
\* call ends as it does alone: ipa_to_features with the list the function
\* of its argument gives, has_feature with the list the function of its
\* arguments gives, or raising exactly when its feature is no name; and each
\* pass moves only its own thread's locals.
C19_InterleavedCallsAsAlone ==
  /\ [][\E t \in Threads :
          \A u \in Threads \ {t} :
            \A v \in 1..Len(callVars) : callVars'[v][u] = callVars[v][u]]_vars
  /\ [](\A t \in Threads :
          /\ pc[t] = "tok_done" => features[t] = IpaToFeatures(raw[t])
          /\ pc[t] = "hf_done" =>
               /\ feature[t] \in DOMAIN FEATURE_MASK
               /\ retvec[t] = HasFeature(vector[t], feature[t], binary[t])
          /\ pc[t] = "hf_raised" =>
               /\ feature[t] \notin DOMAIN FEATURE_MASK
               /\ retvec[t] = <<>>)

\* C19 witness: thread 1 returns the vectors of "ts0" while thread 2 is in
\* the middle of its loop over [-1, t]
C19_Witness ==
  /\ pc[1] = "tok_done"
  /\ raw[1] = <<116, 115, 48>>
  /\ features[1] = <<PHONETIC_FEATURES[<<116, 115>>], NegOne>>
  /\ pc[2] = "hf_loop"
  /\ seen[2] = 1
  /\ retvec[2] = <<NaN>>


\* C23: every pass of the tokenizer's loop advances pos by 3 only when the
\* three codepoints at pos are a key, by 2 only when the two codepoints at
\* pos are a key, and by 1 otherwise; so pos never exceeds the length of the
\* input and equals it when the loop exits.
C23_AdvanceByMatchedLength ==
  [][pc = "tok" =>
       /\ pos' # pos =>
            /\ pos' - pos \in {1, 2, 3}
            /\ pos' - pos = 3 => IsKeyAt(ipa, pos, 3)
            /\ pos' - pos = 2 => IsKeyAt(ipa, pos, 2)
            /\ pos' <= Len(ipa)
       /\ pc' = "tok_done" => pos = Len(ipa)]_vars


\* the feature names in the order the claim gives, most significant first
FieldOrder ==
  <<"consonantal", "sonorant", "syllabic", "labial", "round", "coronal",
    "anterior", "distributed", "dorsal", "high", "low", "back", "tense",
    "pharyngeal", "ATR", "voice", "spread_glottis", "constricted_glottis",
    "continuant", "strident", "lateral", "delayed_release", "nasal">>

\* the names of FieldOrder are the names of the table, each mask is the
\* mask of the name before it shifted right by 2 bits, and the last is 0b11
MasksInFieldOrder ==
  /\ {FieldOrder[i] : i \in 1..Len(FieldOrder)} = DOMAIN FEATURE_MASK
  /\ \A i \in 2..Len(FieldOrder) :
       FEATURE_MASK[FieldOrder[i]] =
         ShiftRight1(ShiftRight1(FEATURE_MASK[FieldOrder[i - 1]]))
  /\ FEATURE_MASK["nasal"] = Bin(<<1, 1>>)

\* C24: the fields are consecutive 2-bit fields in the order consonantal,
\* sonorant, ..., nasal from the most significant end: each name's mask is
\* the mask of the name before it shifted right by 2 bits, the mask of
\* nasal is 0b11, and the mask a call works with is the field at its
\* feature's place in that order.
C24_FieldsInOrder ==
  pc \in {"hf_loop", "hf_done"} =>
    /\ MasksInFieldOrder
    /\ \E i \in 1..Len(FieldOrder) :
         /\ FieldOrder[i] = feature
         /\ mask.bits = {2 * (Len(FieldOrder) - i), 2 * (Len(FieldOrder) - i) + 1}

\* C24 witness: a call for low, the 11th name, works with bits 25 and 24
C24_Witness ==
  /\ pc = "hf_done"
  /\ feature = "low"
  /\ mask.bits = {24, 25}
  /\ pos_mask.bits = {23, 24}


\* a finished call with a valid feature on one non-negative int
CallOnOneNonNegative ==
  /\ pc = "hf_done"
  /\ Len(vector) = 1
  /\ ~IsNegative(vector[1])

\* C25: for a non-negative v and a valid feature, has_feature([v], f) is
\* [1] exactly when the lower bit of the field is set (01 or 11); in ternary
\* mode it is [-1] exactly when the field is 10 and [0] exactly when it is
\* 00; in binary mode it is [0] for 10 and for 00.  The encoding 01 is not
\* rejected, it decodes as 1.
C25_LowerBitDecides ==
  CallOnOneNonNegative =>
    LET fld == FieldOf(vector[1], feature)
    IN /\ retvec = <<PyNum(1)>> <=> fld[2] = 1
       /\ ~binary =>
            /\ retvec = <<PyNum(-1)>> <=> fld = <<1, 0>>
            /\ retvec = <<PyNum(0)>> <=> fld = <<0, 0>>
       /\ binary => (retvec = <<PyNum(0)>> <=> fld[2] = 0)
       /\ fld = <<0, 1>> => retvec = <<PyNum(1)>>

\* C25 witness: the int with every field 01 decodes to [1] for voice, the
\* int with every field 11 does too
C25_Witness ==
  /\ CallOnOneNonNegative
  /\ feature = "voice"
  /\ \/ vector = <<EvenBits>> /\ FieldOf(vector[1], feature) = <<0, 1>>
     \/ vector = <<Ones46>> /\ FieldOf(vector[1], feature) = <<1, 1>>
  /\ retvec = <<PyNum(1)>>

\* the non-negative ints the model passes to has_feature
NonNegativeVectors ==
  {v \in SampleVectors \cup TableVectors \cup ProbeVectors : ~IsNegative(v)}

\* C26: the value decoded for a feature depends only on the two bits of its
\* field: every non-negative w that agrees with v on them gives what the
\* call on v returned, whatever the bit below the field, which mask >> 1
\* overlaps, and the bits above the top field are.
C26_OnlyTheFieldCounts ==
  CallOnOneNonNegative =>
    \A w \in NonNegativeVectors :
      FieldOf(w, feature) = FieldOf(vector[1], feature) =>
        HasFeature(<<w>>, feature, binary) = retvec

\* C26 witness: for labial the int with every field 10 and the vector of t
\* both hold 10 and differ in bit 37, which mask >> 1 overlaps, and the call
\* returned [-1]; for consonantal the ints with every field 11 differ in the
\* bits 46 and 47 above the top field
C26_Witness ==
  /\ CallOnOneNonNegative
  /\ ~binary
  /\ \/ /\ vector = <<OddBits>>
        /\ feature = "labial"
        /\ pos_mask.bits = {37, 38}
        /\ FieldOf(PHONETIC_FEATURES[<<116>>], feature) = FieldOf(OddBits, feature)
        /\ 37 \in OddBits.bits
        /\ 37 \notin PHONETIC_FEATURES[<<116>>].bits
        /\ retvec = <<PyNum(-1)>>
     \/ /\ vector = <<Ones48>>
        /\ feature = "consonantal"
        /\ FieldOf(Ones46, feature) = FieldOf(Ones48, feature)
        /\ retvec = <<PyNum(1)>>


\* the keys of more than one codepoint
MultiKeys == {k \in DOMAIN PHONETIC_FEATURES : Len(k) > 1}

\* no codepoint that ends a key of several codepoints begins one
NoChainedKeys == \A k, l \in MultiKeys : k[Len(k)] # l[1]

\* the fewest tokens any segmentation of s from p on has, a token being a
\* key or one codepoint
RECURSIVE MinTokens(_, _)
MinTokens(s, p) ==
  IF p >= Len(s) THEN 0
  ELSE LET lens == {n \in 1..(Len(s) - p) :
                      n = 1 \/ SubSeq(s, p + 1, p + n) \in DOMAIN PHONETIC_FEATURES}
           best == CHOOSE n \in lens :
                     \A m \in lens : MinTokens(s, p + n) <= MinTokens(s, p + m)
       IN 1 + MinTokens(s, p + best)

\* C27: greedy matching needs no backtracking: no codepoint that ends a key
\* of several codepoints begins one, and the list a call returns has the
\* fewest tokens among all segmentations of the input into keys and single
\* codepoints.
C27_GreedyIsShortest ==
  pc = "tok_done" =>
    /\ NoChainedKeys
    /\ Len(features) = MinTokens(ipa, 0)

\* C27 witness: "tts" is cut as t, ts, two tokens, which is the fewest
C27_Witness ==
  /\ pc = "tok_done"
  /\ ipa = <<116, 116, 115>>
  /\ features = <<PHONETIC_FEATURES[<<116>>], PHONETIC_FEATURES[<<116, 115>>]>>
  /\ MinTokens(ipa, 0) = 2


\* s is lower-case and NFC: lower-casing and composing leave it as it is
IsLowerNFC(s) == Normalize(s) = s

\* no key spans the cut between a and b
NoKeyAcross(a, b) ==
  a = <<>> \/ b = <<>> \/ <<a[Len(a)], b[1]>> \notin PhoneticFeatureKeys

\* the list returned for raw is the list for its first i codepoints followed
\* by the list for the rest
SplitsAt(i) ==
  features = IpaToFeatures(SubSeq(raw, 1, i))
               \o IpaToFeatures(SubSeq(raw, i + 1, Len(raw)))

\* C28 as stated: for lower-case NFC strings a and b such that a or b is
\* empty or the last codepoint of a followed by the first of b is no key,
\* ipa_to_features(a + b) is ipa_to_features(a) followed by
\* ipa_to_features(b).
C28_AsStated ==
  pc = "tok_done" =>
    \A i \in 0..Len(raw) :
      LET a == SubSeq(raw, 1, i)
          b == SubSeq(raw, i + 1, Len(raw))
      IN (IsLowerNFC(a) /\ IsLowerNFC(b) /\ NoKeyAcross(a, b)) => SplitsAt(i)

\* C28 amended: the same, for a and b whose concatenation is NFC as well.
C28_CompositionalWhenNFC ==
  pc = "tok_done" =>
    \A i \in 0..Len(raw) :
      LET a == SubSeq(raw, 1, i)
          b == SubSeq(raw, i + 1, Len(raw))
      IN (IsLowerNFC(a) /\ IsLowerNFC(b) /\ IsLowerNFC(raw) /\ NoKeyAcross(a, b))
           => SplitsAt(i)

\* C28 witness: "sts" is "s" followed by "ts", st is no key, and the call
\* returned the vector of s followed by the one of ts
C28_Witness ==
  /\ pc = "tok_done"
  /\ raw = <<115, 116, 115>>
  /\ IsLowerNFC(raw) /\ IsLowerNFC(<<115>>) /\ IsLowerNFC(<<116, 115>>)
  /\ NoKeyAcross(<<115>>, <<116, 115>>)
  /\ features = <<PHONETIC_FEATURES[<<115>>], PHONETIC_FEATURES[<<116, 115>>]>>
  /\ SplitsAt(1)


\* the number of places of list that hold g
Occurrences(list, g) == Cardinality({i \in 1..Len(list) : list[i] = g})

\* C21: for len(term) >= qval >= 1, count() is the number of windows of
\* length qval of the padded term: len(term) + qval - 1 when start_stop is
\* not empty and qval > 1, the padding being qval - 1 copies of
\* start_stop[0] before and of start_stop[-1] after the term, and
\* len(term) - qval + 1 otherwise; it equals len(ordered_list), and the
\* count stored for each q-gram is the number of its occurrences in
\* ordered_list.
C21_CountIsWindows ==
  (qg # None /\ Len(qargs.term) >= qargs.qval /\ qargs.qval >= 1) =>
    LET padding == qargs.start_stop # <<>> /\ qargs.qval > 1
        n == IF padding THEN Len(qargs.term) + qargs.qval - 1
             ELSE Len(qargs.term) - qargs.qval + 1
    IN /\ Len(qg.ordered_list) = n
       /\ Len(qg.term_ss) = n + qargs.qval - 1
       /\ padding =>
            /\ \A i \in 1..(qargs.qval - 1) :
                 /\ qg.term_ss[i] = qargs.start_stop[1]
                 /\ qg.term_ss[Len(qg.term_ss) + 1 - i] =
                      qargs.start_stop[Len(qargs.start_stop)]
            /\ SubSeq(qg.term_ss, qargs.qval, qargs.qval + Len(qargs.term) - 1)
                 = qargs.term
       /\ ~padding => qg.term_ss = qargs.term
       /\ \A i \in 1..n :
            qg.ordered_list[i] = SubSeq(qg.term_ss, i, i + qargs.qval - 1)
       /\ DOMAIN qg.counter = {qg.ordered_list[i] : i \in 1..n}
       /\ \A g \in DOMAIN qg.counter :
            qg.counter[g] = Occurrences(qg.ordered_list, g)
       /\ ret # None => ret.val = n

\* C21 witness: QGrams('ATA').count() is 4, the windows $A AT TA A#
C21_Witness ==
  /\ qargs = [term |-> <<65, 84, 65>>, qval |-> 2, start_stop |-> <<36, 35>>]
  /\ qg # None
  /\ qg.ordered_list = <<<<36, 65>>, <<65, 84>>, <<84, 65>>, <<65, 35>>>>
  /\ ret = [fn |-> "count", args |-> <<>>, val |-> 4]

\* C29: if len(term) < qval or qval < 1, the object is an empty multiset
\* with count() == 0, ordered_list is empty and term_ss is '', while term
\* is recorded; so it is for every start_stop, also when the padded term
\* would have been at least qval long.
C29_ShortTermGivesNothing ==
  (qg # None /\ (Len(qargs.term) < qargs.qval \/ qargs.qval < 1)) =>
    /\ DOMAIN qg.counter = {}
    /\ qg.ordered_list = <<>>
    /\ qg.term_ss = <<>>
    /\ qg.term = qargs.term
    /\ ret # None => ret.val = 0

\* C29 witness: QGrams('A', 2, '$#'), whose padded term $A# is 3 long, is
\* empty and count() has returned 0
C29_Witness ==
  /\ qargs = [term |-> <<65>>, qval |-> 2, start_stop |-> <<36, 35>>]
  /\ Len(TermWithStartStop(qargs.term, qargs.qval, qargs.start_stop)) >= qargs.qval
  /\ qg = [term |-> <<65>>, term_ss |-> <<>>, ordered_list |-> <<>>, counter |-> <<>>]
  /\ ret = [fn |-> "count", args |-> <<>>, val |-> 0]


\* how many of the values of nums are 0
Zeros(nums) == Cardinality({i \in 1..Len(nums) : nums[i] = 0})

\* C22: hmean returns 0 when exactly one of the values in nums is 0 and NaN
\* whenever more than one of them is 0.
C22_ZerosRule ==
  (ret # None /\ ret.fn = "hmean") =>
    /\ Zeros(ret.args[1]) = 1 => ret.val = IntVal(0)
    /\ Zeros(ret.args[1]) > 1 => ret.val = NaN


\* the statistics the claim names
NamedStatistics ==
  {"precision", "recall", "specificity", "npv", "fallout", "fdr", "accuracy",
   "mcc", "significance", "precision_gain", "accuracy_gain",
   "kappa_statistic", "fbeta_score"}

\* C30: on a ConfusionTable of non-negative counts no statistic fails with
\* a division by zero: precision, recall, specificity, npv, fallout, fdr,
\* accuracy, mcc, significance, precision_gain, accuracy_gain,
\* kappa_statistic and fbeta_score with beta > 0 each return a number or
\* NaN.
C30_NoDivisionByZero ==
  (/\ ret # None
   /\ ret.fn \in NamedStatistics
   /\ ret.fn = "fbeta_score" => ret.args[1] > 0)
    => ~Raised(ret.val)

=============================================================================
